---- MODULE Spec2Model ----
(***************************************************************************)
(* git-wt: the interactive multi-select deletion browser and the switch    *)
(* selector (internal/tui), the clean and switch commands (cmd), the        *)
(* display texts of a worktree record, and EnrichWorktree and               *)
(* RemoveWorktree of package git.  One run executes one command, or one     *)
(* call of a function of a package.                                         *)
(*                                                                          *)
(* Strings that the code takes apart or builds (branch refs, error lines)   *)
(* are sequences of one-character strings; strings that are only compared   *)
(* (keys, paths, mode names) are TLA+ strings.                              *)
(***************************************************************************)
EXTENDS Integers, Sequences, FiniteSets, TLC

\* ------------------------------------------------------------------ bounds
\* Largest number of worktrees handed to New().
MaxItems == 2

\* ----------------------------------------------------------------- strings
HasPrefix(s, p) ==
    /\ Len(s) >= Len(p)
    /\ SubSeq(s, 1, Len(p)) = p

TrimPrefix(s, p) ==
    IF HasPrefix(s, p) THEN SubSeq(s, Len(p) + 1, Len(s)) ELSE s

RefsHeads == <<"r", "e", "f", "s", "/", "h", "e", "a", "d", "s", "/">>

\* ------------------------------------------------------------- git.Worktree
\* Worktree.BranchShort
BranchShort(w) == TrimPrefix(w.Branch, RefsHeads)

\* The paths and the feature branches `git worktree list` reports, by
\* position.
Paths == <<"/repo", "/repo-a", "/repo-b", "/repo-c", "/repo-d">>

BranchNames == <<<<"f">>, <<"a">>, <<"b">>, <<"c">>, <<"d">>>>

\* git.DefaultBranch
DefaultBranchName == <<"m">>

\* Worktree.LastCommit: the zero time.Time, or a time in Unix seconds.
ZeroTime == [ IsZero |-> TRUE, Unix |-> 0 ]

UnixTime(t) == [ IsZero |-> FALSE, Unix |-> t ]

DaySecs == 86400

\* The clock reading of time.Since during the run.
Now == 40 * DaySecs + 3600

\* The branches the worktree at position i can have checked out: the main
\* worktree (the first entry) is on the default branch or on a feature branch.
BranchesAt(i) ==
    IF i = 1 THEN { DefaultBranchName, BranchNames[i] } ELSE { BranchNames[i] }

\* The records ListWorktrees + EnrichWorktree deliver to the browser at
\* position i.  The browser's handlers read Path, Branch, IsCurrent and
\* IsMerged only; the other fields are held fixed.  IsMerged is never set
\* on the default branch.
WorktreeAt(i) ==
    UNION { { [Path |-> Paths[i], Branch |-> RefsHeads \o b,
               IsBare |-> FALSE, IsCurrent |-> c, IsMerged |-> g,
               LastCommit |-> ZeroTime]
                : c \in BOOLEAN,
                  g \in IF b = DefaultBranchName THEN { FALSE } ELSE BOOLEAN }
            : b \in BranchesAt(i) }

RECURSIVE WorktreeLists(_)
WorktreeLists(n) ==
    IF n = 0 THEN { <<>> }
    ELSE { Append(s, w) : s \in WorktreeLists(n - 1), w \in WorktreeAt(n) }

\* Outcome of one git.RemoveWorktree call: NoErr or the error's text.
NoErr == <<>>

Causes == { <<"E">> }

RemoveResults == { NoErr } \cup Causes

\* --------------------------------------------------------------- tui keys
CancelKeys == { "q", "ctrl+c", "esc" }

UpKeys == { "up", "k" }

DownKeys == { "down", "j" }

ToggleKeys == { " ", "x" }

DeleteKeys == { "d", "enter" }

SwitchKeys == { "left", "h", "right", "l", "tab" }

\* Every key a handler names, and one that none names.
Keys ==
    CancelKeys \cup UpKeys \cup DownKeys \cup ToggleKeys \cup DeleteKeys
        \cup SwitchKeys \cup { "a", "n", "y", "z" }

\* tea.WindowSizeMsg values.
WindowSizes == { <<80, 24>> }

\* ------------------------------------------------------------ tui.model
VARIABLES
    command,        \* the command this run executes: "browse", "clean",
                    \* "switch", "format" (one call of a formatter), "git"
                    \* (one call of package git), "selector" (one call
                    \* of tui.RunSelector), "match" (one call of
                    \* matchWorktrees) or "list" (one call of
                    \* git.ListWorktrees)
    worktrees,      \* runClean: the enriched worktree list
    cleanMerged,    \* flag --merged
    cleanStaleDays, \* flag --stale
    cleanDryRun,    \* flag --dry-run
    cleanForce,     \* flag --force
    cfg,            \* config.LoadForRepo: [StaleDays, AutoPrune]
    candidates,     \* runClean: the candidates it selected
    stdin,          \* the line runClean read from standard input
    stdout,         \* what runClean printed, line by line
    exitErr,        \* the error the command returned: "none" while running
    items,          \* model.items: sequence of [worktree, checked]
    cursor,         \* model.cursor (0-based, as in the code)
    mode,           \* model.mode
    confirmCursor,  \* model.confirmCursor: 0 = No, 1 = Yes
    removed,        \* model.removed
    errors,         \* model.errors
    width,          \* model.width
    height,         \* model.height
    cmd,            \* the tea.Cmd the last Update returned: "nil" or "Quit"
    prog,           \* the tea.Program: "running", "quitting", "stopped", "panicked"
    removeCalls,    \* git.RemoveWorktree invocations so far, in order
    pruneCalls,     \* the git.PruneWorktrees invocations so far
    last,           \* the switch case the last Update ran, and the mode and
                    \* confirmCursor it saw
    switchInitShell, \* flag --init of switch
    args,           \* the positional arguments of switch
    selector        \* the selectorModel of the switch selector

\* The state of the clean command.
cleanVars ==
    << cleanMerged, cleanStaleDays, cleanDryRun, cleanForce, cfg, candidates,
       stdin, stdout >>

\* The state of the switch command.
switchVars == << switchInitShell, args, selector >>

vars ==
    << command, worktrees, cleanVars, switchVars, exitErr,
       items, cursor, mode, confirmCursor, removed, errors, width, height,
       cmd, prog, removeCalls, pruneCalls, last >>

\* The model value the handlers receive.
CurModel ==
    [ items |-> items, cursor |-> cursor, mode |-> mode,
      confirmCursor |-> confirmCursor, removed |-> removed, errors |-> errors,
      width |-> width, height |-> height ]

\* NewSelector(worktrees)
NewSelector(wts) ==
    [ items |-> wts, cursor |-> 0, selected |-> <<>>, done |-> FALSE,
      width |-> 0, height |-> 0 ]

\* New(worktrees, repoDir)
New(wts) ==
    [ items |-> [ i \in 1..Len(wts) |->
                    [ worktree |-> wts[i], checked |-> FALSE ] ],
      cursor |-> 0, mode |-> "List", confirmCursor |-> 0,
      removed |-> <<>>, errors |-> <<>>, width |-> 0, height |-> 0 ]

\* What a handler hands back: the model, the command, the collaborator calls
\* it made, whether it faulted (index out of range), and the switch case it
\* ran, named by the first key of the case clause.
Result(m, c) ==
    [ m |-> m, cmd |-> c, calls |-> <<>>, prunes |-> <<>>, panic |-> FALSE,
      case |-> "default" ]

Panic(m) ==
    [ m |-> m, cmd |-> "nil", calls |-> <<>>, prunes |-> <<>>, panic |-> TRUE,
      case |-> "default" ]

Case(label, r) == [r EXCEPT !.case = label]

\* model.selectedCount
selectedCount(m) ==
    Cardinality({ i \in 1..Len(m.items) : m.items[i].checked })

\* updateList, case "up", "k"
CursorUp(m) ==
    IF m.cursor > 0 THEN [m EXCEPT !.cursor = @ - 1] ELSE m

\* Variant of CursorDown: the bound is off by one.
CursorDown_OffByOne(m) ==
    IF m.cursor < Len(m.items) THEN [m EXCEPT !.cursor = @ + 1] ELSE m

\* updateList, case "down", "j"
CursorDown(m) ==
    IF m.cursor < Len(m.items) - 1 THEN [m EXCEPT !.cursor = @ + 1] ELSE m

\* Variant of ToggleSelection: the IsCurrent test is missing.
ToggleSelection_NoGuard(m) ==
    [m EXCEPT !.items[m.cursor + 1].checked = ~@]

\* Variant of ToggleSelection: the item is checked, never unchecked.
ToggleSelection_CheckOnly(m) ==
    IF ~m.items[m.cursor + 1].worktree.IsCurrent
    THEN [m EXCEPT !.items[m.cursor + 1].checked = TRUE]
    ELSE m

\* updateList, case " ", "x" (the cursor's item exists)
ToggleSelection(m) ==
    IF ~m.items[m.cursor + 1].worktree.IsCurrent
    THEN [m EXCEPT !.items[m.cursor + 1].checked = ~@]
    ELSE m

\* Variant of SelectAllMerged: the IsMerged test is missing.
SelectAllMerged_NoMergeTest(m) ==
    [m EXCEPT !.items =
        [ i \in 1..Len(m.items) |->
            IF ~m.items[i].worktree.IsCurrent
            THEN [m.items[i] EXCEPT !.checked = TRUE]
            ELSE m.items[i] ]]

\* updateList, case "a"
SelectAllMerged(m) ==
    [m EXCEPT !.items =
        [ i \in 1..Len(m.items) |->
            IF ~m.items[i].worktree.IsCurrent /\ m.items[i].worktree.IsMerged
            THEN [m.items[i] EXCEPT !.checked = TRUE]
            ELSE m.items[i] ]]

\* Variant of DeselectAll: the loop starts one item late.
DeselectAll_SkipFirst(m) ==
    [m EXCEPT !.items =
        [ i \in 1..Len(m.items) |->
            IF i = 1 THEN m.items[i]
            ELSE [m.items[i] EXCEPT !.checked = FALSE] ]]

\* updateList, case "n"
DeselectAll(m) ==
    [m EXCEPT !.items =
        [ i \in 1..Len(m.items) |-> [m.items[i] EXCEPT !.checked = FALSE] ]]

\* Variant of RequestDeletion: Confirm is entered with nothing checked too.
RequestDeletion_NoSelectionTest(m) ==
    [m EXCEPT !.mode = "Confirm", !.confirmCursor = 0]

\* Variant of RequestDeletion: confirmCursor is not reset.
RequestDeletion_NoReset(m) ==
    IF selectedCount(m) > 0
    THEN [m EXCEPT !.mode = "Confirm"]
    ELSE m

\* updateList, case "d", "enter"
RequestDeletion(m) ==
    IF selectedCount(m) > 0
    THEN [m EXCEPT !.mode = "Confirm", !.confirmCursor = 0]
    ELSE m

\* Variant of QuitFromList: the selection is dropped on the way out.
QuitFromList_Clears(m) ==
    Result([m EXCEPT !.items =
                [ i \in 1..Len(m.items) |->
                    [m.items[i] EXCEPT !.checked = FALSE] ]], "Quit")

\* updateList, case "q", "ctrl+c", "esc"
QuitFromList(m) == Result(m, "Quit")

\* model.updateList
updateList(m, key) ==
    IF key \in CancelKeys THEN Case("q", QuitFromList(m))
    ELSE IF key \in UpKeys THEN Case("up", Result(CursorUp(m), "nil"))
    ELSE IF key \in DownKeys THEN Case("down", Result(CursorDown(m), "nil"))
    ELSE IF key \in ToggleKeys THEN
        IF m.cursor + 1 \in 1..Len(m.items)
        THEN Case(" ", Result(ToggleSelection(m), "nil"))
        ELSE Case(" ", Panic(m))
    ELSE IF key = "a" THEN Case("a", Result(SelectAllMerged(m), "nil"))
    ELSE IF key = "n" THEN Case("n", Result(DeselectAll(m), "nil"))
    ELSE IF key \in DeleteKeys THEN Case("d", Result(RequestDeletion(m), "nil"))
    ELSE Result(m, "nil")

\* fmt.Sprintf("%s: %v", branch, err)
ErrorLine(branch, err) == branch \o <<":", " ">> \o err

\* Variant of RemovalLoop: the loop ends at the first failed removal.
RECURSIVE RemovalLoop_FailFast(_, _, _, _)
RemovalLoop_FailFast(m, res, i, calls) ==
    IF i > Len(m.items) THEN [ m |-> m, calls |-> calls ]
    ELSE IF ~m.items[i].checked THEN RemovalLoop_FailFast(m, res, i + 1, calls)
    ELSE
        LET wt == m.items[i].worktree
            branch == BranchShort(wt)
            call == [ path |-> wt.Path, deleteBranch |-> wt.IsMerged ]
        IN  IF res[i] # NoErr
            THEN [ m |-> [m EXCEPT
                            !.errors = Append(@, ErrorLine(branch, res[i]))],
                   calls |-> Append(calls, call) ]
            ELSE RemovalLoop_FailFast(
                    [m EXCEPT !.removed = Append(@, branch)],
                    res, i + 1, Append(calls, call))

\* Variant of RemovalLoop: unchecked items are not skipped.
RECURSIVE RemovalLoop_NoSkip(_, _, _, _)
RemovalLoop_NoSkip(m, res, i, calls) ==
    IF i > Len(m.items) THEN [ m |-> m, calls |-> calls ]
    ELSE
        LET wt == m.items[i].worktree
            branch == BranchShort(wt)
            call == [ path |-> wt.Path, deleteBranch |-> wt.IsMerged ]
        IN  IF m.items[i].checked /\ res[i] # NoErr
            THEN RemovalLoop_NoSkip(
                    [m EXCEPT !.errors = Append(@, ErrorLine(branch, res[i]))],
                    res, i + 1, Append(calls, call))
            ELSE RemovalLoop_NoSkip(
                    [m EXCEPT !.removed = Append(@, branch)],
                    res, i + 1, Append(calls, call))

\* Variant of RemovalLoop: the branch is deleted with every worktree.
RECURSIVE RemovalLoop_AlwaysDeletesBranch(_, _, _, _)
RemovalLoop_AlwaysDeletesBranch(m, res, i, calls) ==
    IF i > Len(m.items) THEN [ m |-> m, calls |-> calls ]
    ELSE IF ~m.items[i].checked
    THEN RemovalLoop_AlwaysDeletesBranch(m, res, i + 1, calls)
    ELSE
        LET wt == m.items[i].worktree
            branch == BranchShort(wt)
            call == [ path |-> wt.Path, deleteBranch |-> TRUE ]
        IN  IF res[i] # NoErr
            THEN RemovalLoop_AlwaysDeletesBranch(
                    [m EXCEPT !.errors = Append(@, ErrorLine(branch, res[i]))],
                    res, i + 1, Append(calls, call))
            ELSE RemovalLoop_AlwaysDeletesBranch(
                    [m EXCEPT !.removed = Append(@, branch)],
                    res, i + 1, Append(calls, call))

\* executeRemoval: the loop over m.items from index i on.  res[i] is what
\* git.RemoveWorktree returns for item i.
RECURSIVE RemovalLoop(_, _, _, _)
RemovalLoop(m, res, i, calls) ==
    IF i > Len(m.items) THEN [ m |-> m, calls |-> calls ]
    ELSE IF ~m.items[i].checked THEN RemovalLoop(m, res, i + 1, calls)
    ELSE
        LET wt == m.items[i].worktree
            branch == BranchShort(wt)
            call == [ path |-> wt.Path, deleteBranch |-> wt.IsMerged ]
        IN  IF res[i] # NoErr
            THEN RemovalLoop(
                    [m EXCEPT !.errors = Append(@, ErrorLine(branch, res[i]))],
                    res, i + 1, Append(calls, call))
            ELSE RemovalLoop(
                    [m EXCEPT !.removed = Append(@, branch)],
                    res, i + 1, Append(calls, call))

\* One git.PruneWorktrees call: after is the number of git.RemoveWorktree
\* calls the caller made before it.  Both callers discard what it returns.
PruneCall(after) == [ after |-> after ]

\* Variant of executeRemoval: a failed prune is reported like a failed
\* removal.
executeRemoval_ReportsPrune(m, res) ==
    LET loop == RemovalLoop(m, res, 1, <<>>)
    IN  [ m |-> [loop.m EXCEPT
                    !.mode = "Done",
                    !.errors = IF res[0] # NoErr
                               THEN Append(@, ErrorLine(<<>>, res[0]))
                               ELSE @],
          cmd |-> "nil",
          calls |-> loop.calls,
          prunes |-> << PruneCall(Len(loop.calls)) >>,
          panic |-> FALSE, case |-> "default" ]

\* model.executeRemoval.  res[0] is what git.PruneWorktrees returns; it is
\* discarded.
executeRemoval(m, res) ==
    LET loop == RemovalLoop(m, res, 1, <<>>)
    IN  [ m |-> [loop.m EXCEPT !.mode = "Done"], cmd |-> "nil",
          calls |-> loop.calls,
          prunes |-> << PruneCall(Len(loop.calls)) >>,
          panic |-> FALSE, case |-> "default" ]

\* Variant of ConfirmEnter: confirmCursor is not consulted.
ConfirmEnter_Always(m, res) == executeRemoval(m, res)

\* Variant of ConfirmEnter: going back on No drops the selection.
ConfirmEnter_Clears(m, res) ==
    IF m.confirmCursor = 1
    THEN executeRemoval(m, res)
    ELSE Result([m EXCEPT !.mode = "List",
                          !.items = [ i \in 1..Len(m.items) |->
                                [m.items[i] EXCEPT !.checked = FALSE] ]],
                "nil")

\* updateConfirm, case "enter"
ConfirmEnter(m, res) ==
    IF m.confirmCursor = 1
    THEN executeRemoval(m, res)
    ELSE Result([m EXCEPT !.mode = "List"], "nil")

\* model.updateConfirm
updateConfirm(m, key, res) ==
    IF key \in CancelKeys
        THEN Case("q", Result([m EXCEPT !.mode = "List"], "nil"))
    ELSE IF key \in SwitchKeys
        THEN Case("left", Result([m EXCEPT !.confirmCursor = 1 - @], "nil"))
    ELSE IF key = "y"
        THEN Case("y", executeRemoval([m EXCEPT !.confirmCursor = 1], res))
    ELSE IF key = "n"
        THEN Case("n", Result([m EXCEPT !.mode = "List"], "nil"))
    ELSE IF key = "enter" THEN Case("enter", ConfirmEnter(m, res))
    ELSE Result(m, "nil")

\* Variant of updateDone: a key goes back to the list.
updateDone_BackToList(m, key) == Result([m EXCEPT !.mode = "List"], "nil")

\* model.updateDone
updateDone(m, key) == Result(m, "Quit")

\* model.Update, case tea.KeyMsg
UpdateKey(m, key, res) ==
    IF m.mode = "List" THEN updateList(m, key)
    ELSE IF m.mode = "Confirm" THEN updateConfirm(m, key, res)
    ELSE Case("any", updateDone(m, key))

\* model.Update, case tea.WindowSizeMsg
UpdateWindowSize(m, size) ==
    Case("WindowSizeMsg",
         Result([m EXCEPT !.width = size[1], !.height = size[2]], "nil"))

\* The program loop stores the returned model and runs the returned command:
\* tea.Quit asks the program to stop, a fault in Update ends it.
Apply(r) ==
    /\ items' = r.m.items
    /\ cursor' = r.m.cursor
    /\ mode' = r.m.mode
    /\ confirmCursor' = r.m.confirmCursor
    /\ removed' = r.m.removed
    /\ errors' = r.m.errors
    /\ width' = r.m.width
    /\ height' = r.m.height
    /\ cmd' = r.cmd
    /\ prog' = IF r.panic THEN "panicked"
               ELSE IF r.cmd = "Quit" THEN "quitting"
               ELSE prog
    /\ removeCalls' = removeCalls \o r.calls
    /\ pruneCalls' = pruneCalls \o r.prunes
    /\ last' = [ case |-> r.case, mode |-> mode,
                 confirmCursor |-> confirmCursor ]
    /\ exitErr' = IF r.panic THEN "panic" ELSE exitErr
    /\ UNCHANGED << command, worktrees, cleanVars, switchVars >>

\* config.Default
DefaultConfig == [ StaleDays |-> 30, AutoPrune |-> TRUE ]

\* runRoot, Run: the state after New() and before the first message.
Init ==
    \E n \in 0..MaxItems : \E wts \in WorktreeLists(n) :
        LET m == New(wts) IN
        /\ command = "browse"
        /\ worktrees = <<>>
        /\ cleanMerged = FALSE
        /\ cleanStaleDays = 0
        /\ cleanDryRun = FALSE
        /\ cleanForce = FALSE
        /\ cfg = DefaultConfig
        /\ candidates = <<>>
        /\ stdin = <<>>
        /\ stdout = <<>>
        /\ exitErr = "none"
        /\ items = m.items
        /\ cursor = m.cursor
        /\ mode = m.mode
        /\ confirmCursor = m.confirmCursor
        /\ removed = m.removed
        /\ errors = m.errors
        /\ width = m.width
        /\ height = m.height
        /\ cmd = "nil"
        /\ prog = "running"
        /\ removeCalls = <<>>
        /\ pruneCalls = <<>>
        /\ last = [ case |-> "none", mode |-> "List", confirmCursor |-> 0 ]
        /\ switchInitShell = <<>>
        /\ args = <<>>
        /\ selector = NewSelector(<<>>)

\* The outcomes the repository can give to the git.RemoveWorktree calls a
\* key event may make, one per checked item, and (at 0) to its
\* git.PruneWorktrees call; only Confirm mode makes any.
Outcomes(m) ==
    [ { i \in 0..Len(m.items) :
            m.mode = "Confirm" /\ (i = 0 \/ m.items[i].checked) }
        -> RemoveResults ]

\* The keys whose cases of updateConfirm call executeRemoval.
ExecuteKeys == { "y", "enter" }

\* Git is run only under executeRemoval: any other key consumes no outcome.
KeyOutcomes(m, key) ==
    IF key \in ExecuteKeys THEN Outcomes(m) ELSE { <<>> }

\* The key event key is delivered to Update.  Keys read before the program
\* acts on a quit command are still delivered.
KeyStep(key) ==
    /\ command = "browse"
    /\ prog \in { "running", "quitting" }
    /\ \E res \in KeyOutcomes(CurModel, key) :
            Apply(UpdateKey(CurModel, key, res))

\* A key event is delivered to Update.
KeyMsg == \E key \in Keys : KeyStep(key)

\* A window size event is delivered to Update.
WindowSizeMsg ==
    /\ command = "browse"
    /\ prog \in { "running", "quitting" }
    /\ \E size \in WindowSizes :
        Apply(UpdateWindowSize(CurModel, size))

\* The program acts on the quit command: Run returns.
Stop ==
    /\ command = "browse"
    /\ prog = "quitting"
    /\ prog' = "stopped"
    /\ exitErr' = "nil"
    /\ UNCHANGED << command, worktrees, cleanVars, switchVars >>
    /\ UNCHANGED << items, cursor, mode, confirmCursor, removed, errors,
                    width, height, cmd, removeCalls, pruneCalls, last >>

Next == KeyMsg \/ WindowSizeMsg \/ Stop

Spec == Init /\ [][Next]_vars

\* ------------------------------------------------------------ cmd: clean
\* Largest number of worktrees ListWorktrees reports to runClean.
MaxCleanItems == 2

\* int(x): conversion of a quotient to int truncates toward zero.
TruncDiv(a, b) == IF a >= 0 THEN a \div b ELSE -((-a) \div b)

\* Variant of InactiveDays: an unset last commit is not told apart.
InactiveDays_NoZeroCheck(w) ==
    TruncDiv(Now - w.LastCommit.Unix, DaySecs)

\* Worktree.InactiveDays
InactiveDays(w) ==
    IF w.LastCommit.IsZero THEN 0
    ELSE TruncDiv(Now - w.LastCommit.Unix, DaySecs)

\* The values cleanup.stale_days is drawn from.
StaleDayChoices == { 0, 2 }

\* The values --stale is drawn from: not given (0), and less than, equal to
\* and more than the two days of inactivity of LastCommits.
StaleFlagChoices == { 0, 1, 2, 3 }

\* The last-commit times EnrichWorktree finds: none, or two days ago.
LastCommits == { ZeroTime, UnixTime(Now - 2 * DaySecs) }

\* The records ListWorktrees + EnrichWorktree deliver to runClean at
\* position i: only the first entry of `git worktree list` can be bare, a
\* bare record is not enriched, and IsMerged is never set on the default
\* branch.
CleanWorktreeAt(i) ==
    { [Path |-> Paths[i], Branch |-> <<>>, IsBare |-> TRUE,
       IsCurrent |-> c, IsMerged |-> FALSE, LastCommit |-> ZeroTime]
        : c \in IF i = 1 THEN BOOLEAN ELSE {} }
    \cup
    UNION { { [Path |-> Paths[i], Branch |-> RefsHeads \o b,
               IsBare |-> FALSE, IsCurrent |-> c, IsMerged |-> g,
               LastCommit |-> t]
                : c \in BOOLEAN,
                  g \in IF b = DefaultBranchName THEN { FALSE } ELSE BOOLEAN,
                  t \in LastCommits }
            : b \in BranchesAt(i) }

RECURSIVE CleanWorktreeLists(_)
CleanWorktreeLists(n) ==
    IF n = 0 THEN { <<>> }
    ELSE { Append(s, w) :
            s \in CleanWorktreeLists(n - 1), w \in CleanWorktreeAt(n) }

\* What config.LoadForRepo can return.
Configs ==
    { [ StaleDays |-> d, AutoPrune |-> a ] :
        d \in StaleDayChoices, a \in BOOLEAN }

\* strings.ToLower, on the letters the model's strings use.
UpperLetters == <<"A", "B", "C", "E", "H", "N", "S", "Y", "Z">>

LowerLetters == <<"a", "b", "c", "e", "h", "n", "s", "y", "z">>

LowerChar(c) ==
    IF \E i \in 1..Len(UpperLetters) : UpperLetters[i] = c
    THEN LowerLetters[CHOOSE i \in 1..Len(UpperLetters) : UpperLetters[i] = c]
    ELSE c

ToLower(s) == [ i \in 1..Len(s) |-> LowerChar(s[i]) ]

IsSpace(c) == c \in { " ", "\n", "\t", "\r" }

\* strings.TrimSpace
RECURSIVE TrimSpace(_)
TrimSpace(s) ==
    IF s = <<>> THEN s
    ELSE IF IsSpace(Head(s)) THEN TrimSpace(Tail(s))
    ELSE IF IsSpace(s[Len(s)]) THEN TrimSpace(SubSeq(s, 1, Len(s) - 1))
    ELSE s

\* The lines the user can type at the prompt.
AnswerLines ==
    { <<"y", "\n">>, <<"Y", "E", "S", "\n">>, <<"n", "\n">>, <<"\n">> }

\* runClean: the answer is "y" or "yes" after trimming and lowering.
Confirmed(line) ==
    LET answer == TrimSpace(ToLower(line))
    IN  answer = <<"y">> \/ answer = <<"y", "e", "s">>

\* One reason of a candidate: "merged" or "<n>d inactive".
Reason(tag, days) == [ tag |-> tag, days |-> days ]

\* Variant of CleanReasons: a threshold of 0 is applied like any other.
CleanReasons_ZeroThresholdApplies(wt, merged, staleFlag, explicit, staleDays) ==
    IF explicit
    THEN (IF merged /\ wt.IsMerged
          THEN << Reason("merged", 0) >> ELSE <<>>)
         \o (IF InactiveDays(wt) >= staleDays
             THEN << Reason("inactive", InactiveDays(wt)) >> ELSE <<>>)
    ELSE (IF wt.IsMerged
          THEN << Reason("merged", 0) >> ELSE <<>>)
         \o (IF InactiveDays(wt) >= staleDays
             THEN << Reason("inactive", InactiveDays(wt)) >> ELSE <<>>)

\* Variant of CleanReasons: both criteria are applied whatever the flags.
CleanReasons_IgnoresFlags(wt, merged, staleFlag, explicit, staleDays) ==
    (IF wt.IsMerged
     THEN << Reason("merged", 0) >> ELSE <<>>)
    \o (IF staleDays > 0 /\ InactiveDays(wt) >= staleDays
        THEN << Reason("inactive", InactiveDays(wt)) >> ELSE <<>>)

\* Variant of CleanReasons: inactivity has to exceed the threshold.
CleanReasons_Exceeds(wt, merged, staleFlag, explicit, staleDays) ==
    IF explicit
    THEN (IF merged /\ wt.IsMerged
          THEN << Reason("merged", 0) >> ELSE <<>>)
         \o (IF staleFlag > 0 /\ InactiveDays(wt) > staleDays
             THEN << Reason("inactive", InactiveDays(wt)) >> ELSE <<>>)
    ELSE (IF wt.IsMerged
          THEN << Reason("merged", 0) >> ELSE <<>>)
         \o (IF staleDays > 0 /\ InactiveDays(wt) > staleDays
             THEN << Reason("inactive", InactiveDays(wt)) >> ELSE <<>>)

\* runClean: the reasons that make wt a candidate.
CleanReasons(wt, merged, staleFlag, explicit, staleDays) ==
    IF explicit
    THEN (IF merged /\ wt.IsMerged
          THEN << Reason("merged", 0) >> ELSE <<>>)
         \o (IF staleFlag > 0 /\ InactiveDays(wt) >= staleDays
             THEN << Reason("inactive", InactiveDays(wt)) >> ELSE <<>>)
    ELSE (IF wt.IsMerged
          THEN << Reason("merged", 0) >> ELSE <<>>)
         \o (IF staleDays > 0 /\ InactiveDays(wt) >= staleDays
             THEN << Reason("inactive", InactiveDays(wt)) >> ELSE <<>>)

\* Variant of CleanSkips: the current worktree is not skipped.
CleanSkips_NotCurrent(wt, defaultBranch) ==
    \/ wt.IsBare
    \/ BranchShort(wt) = defaultBranch

\* runClean: the worktrees the filter never considers.
CleanSkips(wt, defaultBranch) ==
    \/ wt.IsBare
    \/ wt.IsCurrent
    \/ BranchShort(wt) = defaultBranch

\* runClean: the candidate filter.
CleanCandidates(wts, merged, staleFlag, c, defaultBranch) ==
    LET explicit == merged \/ staleFlag > 0
        staleDays == IF explicit THEN staleFlag ELSE c.StaleDays
        reasons(wt) == CleanReasons(wt, merged, staleFlag, explicit, staleDays)
        sel == SelectSeq(wts, LAMBDA wt :
                    ~CleanSkips(wt, defaultBranch) /\ reasons(wt) # <<>>)
    IN  [ j \in 1..Len(sel) |->
            [ worktree |-> sel[j], reason |-> reasons(sel[j]) ] ]

\* A printed line.
Line(kind, branch, detail) ==
    [ kind |-> kind, branch |-> branch, detail |-> detail ]

\* Variant of CleanRemovalLoop: the loop ends at the first failed removal.
RECURSIVE CleanRemovalLoop_FailFast(_, _, _, _)
CleanRemovalLoop_FailFast(cands, res, i, acc) ==
    IF i > Len(cands) THEN acc
    ELSE
        LET wt == cands[i].worktree
            branch == BranchShort(wt)
            call == [ path |-> wt.Path, deleteBranch |-> wt.IsMerged ]
        IN  IF res[i] # NoErr
            THEN [acc EXCEPT
                    !.calls = Append(@, call),
                    !.out = Append(@, Line("Failed to remove", branch,
                                            res[i]))]
            ELSE CleanRemovalLoop_FailFast(cands, res, i + 1,
                    [acc EXCEPT
                        !.calls = Append(@, call),
                        !.out = Append(@, Line("Removed", branch, <<>>)),
                        !.removed = @ + 1])

\* runClean: the removal loop over the candidates from index i on.  res[i]
\* is what git.RemoveWorktree returns for candidate i.
RECURSIVE CleanRemovalLoop(_, _, _, _)
CleanRemovalLoop(cands, res, i, acc) ==
    IF i > Len(cands) THEN acc
    ELSE
        LET wt == cands[i].worktree
            branch == BranchShort(wt)
            call == [ path |-> wt.Path, deleteBranch |-> wt.IsMerged ]
        IN  IF res[i] # NoErr
            THEN CleanRemovalLoop(cands, res, i + 1,
                    [acc EXCEPT
                        !.calls = Append(@, call),
                        !.out = Append(@, Line("Failed to remove", branch,
                                                res[i]))])
            ELSE CleanRemovalLoop(cands, res, i + 1,
                    [acc EXCEPT
                        !.calls = Append(@, call),
                        !.out = Append(@, Line("Removed", branch, <<>>)),
                        !.removed = @ + 1])

\* runClean: the candidate listing it prints.
CandidateLines(cands) ==
    [ j \in 1..Len(cands) |->
        Line("candidate", BranchShort(cands[j].worktree), cands[j].reason) ]

\* What runClean hands back and did.
CleanResult(cands, line, out, calls, prunes, err) ==
    [ candidates |-> cands, stdin |-> line, out |-> out, calls |-> calls,
      prunes |-> prunes, err |-> err ]

\* runClean, from the candidate filter on.  line is the line read from
\* standard input when the prompt is shown.
runClean(wts, merged, staleFlag, dryRun, force, c, defaultBranch, line, res) ==
    LET cands == CleanCandidates(wts, merged, staleFlag, c, defaultBranch)
        listing == <<Line("Worktrees to remove", <<>>, <<>>)>>
                        \o CandidateLines(cands)
    IN  IF Len(cands) = 0
        THEN CleanResult(cands, <<>>,
                << Line("No worktrees to clean up.", <<>>, <<>>) >>,
                <<>>,
                IF c.AutoPrune THEN << PruneCall(0) >> ELSE <<>>,
                "nil")
        ELSE IF dryRun
        THEN CleanResult(cands, <<>>,
                Append(listing, Line("Dry run - no changes made.", <<>>, <<>>)),
                <<>>, <<>>, "nil")
        ELSE IF ~force /\ ~Confirmed(line)
        THEN CleanResult(cands, line,
                Append(listing, Line("Cancelled.", <<>>, <<>>)),
                <<>>, <<>>, "nil")
        ELSE
            LET loop == CleanRemovalLoop(cands, res, 1,
                            [ calls |-> <<>>, out |-> <<>>, removed |-> 0 ])
            IN  CleanResult(cands, IF force THEN <<>> ELSE line,
                    listing \o loop.out
                        \o << Line("Cleaned up", <<>>, <<loop.removed>>) >>,
                    loop.calls,
                    IF c.AutoPrune
                    THEN << PruneCall(Len(loop.calls)) >> ELSE <<>>,
                    "nil")

\* The clean command starts: cobra has parsed the flags.
InitClean ==
    /\ command = "clean"
    /\ worktrees = <<>>
    /\ cleanMerged \in BOOLEAN
    /\ cleanStaleDays \in StaleFlagChoices
    /\ cleanDryRun \in BOOLEAN
    /\ cleanForce \in BOOLEAN
    /\ cfg = DefaultConfig
    /\ candidates = <<>>
    /\ stdin = <<>>
    /\ stdout = <<>>
    /\ exitErr = "none"
    /\ items = <<>>
    /\ cursor = 0
    /\ mode = "List"
    /\ confirmCursor = 0
    /\ removed = <<>>
    /\ errors = <<>>
    /\ width = 0
    /\ height = 0
    /\ cmd = "nil"
    /\ prog = "stopped"
    /\ removeCalls = <<>>
    /\ pruneCalls = <<>>
    /\ last = [ case |-> "none", mode |-> "List", confirmCursor |-> 0 ]
    /\ switchInitShell = <<>>
    /\ args = <<>>
    /\ selector = NewSelector(<<>>)

browseVars ==
    << items, cursor, mode, confirmCursor, removed, errors, width, height,
       cmd, prog, last >>

\* runClean fails before it has a worktree list: git.RepoRoot or
\* git.ListWorktrees returns an error.
RunCleanFails ==
    /\ command = "clean"
    /\ exitErr = "none"
    /\ \E err \in { "not a git repository", "git worktree list failed" } :
        exitErr' = err
    /\ UNCHANGED << command, worktrees, cleanVars, browseVars, switchVars,
                    removeCalls, pruneCalls >>

\* runClean runs to its end with the configuration, the worktree list, the
\* answer and the removal outcomes the environment gives it.
RunClean ==
    /\ command = "clean"
    /\ exitErr = "none"
    /\ \E c \in Configs : \E n \in 0..MaxCleanItems :
       \E wts \in CleanWorktreeLists(n) :
        LET cands == CleanCandidates(wts, cleanMerged, cleanStaleDays, c,
                                     DefaultBranchName)
            prompts == Len(cands) > 0 /\ ~cleanDryRun /\ ~cleanForce
            removes == /\ Len(cands) > 0
                       /\ ~cleanDryRun
        IN  \E line \in IF prompts THEN AnswerLines ELSE { <<>> } :
            \E res \in [ IF removes /\ (cleanForce \/ Confirmed(line))
                         THEN 1..Len(cands) ELSE {} -> RemoveResults ] :
                LET r == runClean(wts, cleanMerged, cleanStaleDays,
                                  cleanDryRun, cleanForce, c,
                                  DefaultBranchName, line, res)
                IN  /\ cfg' = c
                    /\ worktrees' = wts
                    /\ candidates' = r.candidates
                    /\ stdin' = r.stdin
                    /\ stdout' = r.out
                    /\ removeCalls' = removeCalls \o r.calls
                    /\ pruneCalls' = pruneCalls \o r.prunes
                    /\ exitErr' = r.err
    /\ UNCHANGED << command, cleanMerged, cleanStaleDays, cleanDryRun,
                    cleanForce, browseVars, switchVars >>

NextClean == RunClean \/ RunCleanFails

SpecClean == InitClean /\ [][NextClean]_vars

\* ----------------------------------------------------------- cmd: switch
\* Largest number of worktrees `git worktree list` reports to runSwitch.
MaxSwitchItems == 2

\* strings.EqualFold, on the letters the model's strings use.
EqualFold(s, t) == ToLower(s) = ToLower(t)

\* strings.Contains
Contains(s, sub) ==
    \E i \in 0..(Len(s) - Len(sub)) : SubSeq(s, i + 1, i + Len(sub)) = sub

\* The branches the worktree at position i can have checked out.
SwitchBranchesAt(i) ==
    IF i = 1 THEN { <<"a", "b">> }
    ELSE IF i = 2 THEN { <<"a">>, <<"A", "B">>, <<"c", "a", "b">> }
    ELSE { <<"b">>, <<"a", "b", "c">> }

\* The records ListWorktrees + EnrichWorktree deliver to runSwitch at
\* position i: a bare entry (the first only), a detached one, or one on a
\* branch.  runSwitch and the selector's Update read Path, Branch, IsBare and
\* IsDetached only; the command is invoked from the first worktree.
SwitchWorktreeAt(i) ==
    ( IF i = 1
      THEN { [Path |-> Paths[i], Branch |-> <<>>, IsBare |-> TRUE,
              IsDetached |-> FALSE, IsCurrent |-> TRUE, IsMerged |-> FALSE,
              LastCommit |-> ZeroTime] }
      ELSE {} )
    \cup
    { [Path |-> Paths[i], Branch |-> <<>>, IsBare |-> FALSE,
       IsDetached |-> TRUE, IsCurrent |-> i = 1, IsMerged |-> FALSE,
       LastCommit |-> ZeroTime] }
    \cup
    { [Path |-> Paths[i], Branch |-> RefsHeads \o b, IsBare |-> FALSE,
       IsDetached |-> FALSE, IsCurrent |-> i = 1, IsMerged |-> FALSE,
       LastCommit |-> ZeroTime] : b \in SwitchBranchesAt(i) }

RECURSIVE SwitchWorktreeLists(_)
SwitchWorktreeLists(n) ==
    IF n = 0 THEN { <<>> }
    ELSE { Append(s, w) : s \in SwitchWorktreeLists(n - 1),
                          w \in SwitchWorktreeAt(n) }

\* The queries given to switch.
Queries == { <<>>, <<"a">>, <<"A", "B">>, <<"b">>, <<"z">> }

\* The values given to --init: none, a supported and an unsupported shell.
InitShells == { <<>>, <<"Z", "s", "h">>, <<"c", "s", "h">> }

\* runSwitch: the worktrees that are neither bare nor detached.
SwitchCandidates_KeepDetached(wts) ==
    SelectSeq(wts, LAMBDA wt : ~wt.IsBare)

SwitchCandidates(wts) ==
    SelectSeq(wts, LAMBDA wt : ~(wt.IsBare \/ wt.IsDetached))

\* matchWorktrees, tier 1: the first worktree whose short name equals the
\* query, letter case aside.
ExactMatch(wts, query) ==
    LET eq == SelectSeq(wts, LAMBDA wt : EqualFold(BranchShort(wt), query))
    IN  IF Len(eq) > 0 THEN << eq[1] >> ELSE <<>>

\* matchWorktrees, tier 2
PrefixMatches(wts, queryLower) ==
    SelectSeq(wts, LAMBDA wt : HasPrefix(ToLower(BranchShort(wt)), queryLower))

\* matchWorktrees, tier 3
SubstringMatches(wts, queryLower) ==
    SelectSeq(wts, LAMBDA wt : Contains(ToLower(BranchShort(wt)), queryLower))

\* Variant of matchWorktrees: the prefix tier is consulted before the exact
\* tier.
matchWorktrees_PrefixBeforeExact(wts, query) ==
    LET queryLower == ToLower(query)
    IN  IF Len(PrefixMatches(wts, queryLower)) > 0
        THEN PrefixMatches(wts, queryLower)
        ELSE IF Len(ExactMatch(wts, query)) > 0
        THEN ExactMatch(wts, query)
        ELSE SubstringMatches(wts, queryLower)

\* Variant of matchWorktrees: there is no substring tier.
matchWorktrees_NoSubstringTier(wts, query) ==
    LET queryLower == ToLower(query)
    IN  IF Len(ExactMatch(wts, query)) > 0
        THEN ExactMatch(wts, query)
        ELSE PrefixMatches(wts, queryLower)

\* matchWorktrees
matchWorktrees(wts, query) ==
    LET queryLower == ToLower(query)
    IN  IF Len(ExactMatch(wts, query)) > 0
        THEN ExactMatch(wts, query)
        ELSE IF Len(PrefixMatches(wts, queryLower)) > 0
        THEN PrefixMatches(wts, queryLower)
        ELSE SubstringMatches(wts, queryLower)

\* printShellInit: what it prints and the error it returns.
printShellInit(shell) ==
    LET sh == ToLower(shell)
    IN  IF sh = <<"b", "a", "s", "h">> \/ sh = <<"z", "s", "h">>
        THEN [ out |-> << Line("shellInitBashZsh", <<>>, "") >>, err |-> "nil" ]
        ELSE IF sh = <<"f", "i", "s", "h">>
        THEN [ out |-> << Line("shellInitFish", <<>>, "") >>, err |-> "nil" ]
        ELSE [ out |-> <<>>, err |-> "unsupported shell" ]

\* What runSwitch does up to its return or to the launch of the selector:
\* the lines printed, the error returned ("none": not returned yet) and the
\* list the selector is launched on.
SwitchResult(out, err, launch) ==
    [ out |-> out, err |-> err, launch |-> launch ]

\* Variant of SwitchOnMatches: several matches resolve to the first one.
SwitchOnMatches_PickFirst(matches) ==
    IF Len(matches) = 0
    THEN SwitchResult(<<>>, "no worktree matching", <<>>)
    ELSE SwitchResult(<< Line("path", <<>>, matches[1].Path) >>, "nil", <<>>)

\* runSwitch: the switch over the number of matches.
SwitchOnMatches(matches) ==
    IF Len(matches) = 0
    THEN SwitchResult(<<>>, "no worktree matching", <<>>)
    ELSE IF Len(matches) = 1
    THEN SwitchResult(<< Line("path", <<>>, matches[1].Path) >>, "nil", <<>>)
    ELSE SwitchResult(<<>>, "none", matches)

\* runSwitch, from the worktree list on.
runSwitch(initShell, wts, a) ==
    IF initShell # <<>>
    THEN LET r == printShellInit(initShell)
         IN  SwitchResult(r.out, r.err, <<>>)
    ELSE LET cands == SwitchCandidates(wts)
         IN  IF Len(cands) = 0
             THEN SwitchResult(<<>>, "no worktrees available", <<>>)
             ELSE IF Len(a) = 0
             THEN SwitchResult(<<>>, "none", cands)
             ELSE SwitchOnMatches(matchWorktrees(cands, a[1]))

\* Variant of SelectorEnter: enter selects the first item.
SelectorEnter_First(m) ==
    IF Len(m.items) > 0
    THEN Result([m EXCEPT !.selected = << m.items[1] >>, !.done = TRUE],
                "Quit")
    ELSE Result([m EXCEPT !.done = TRUE], "Quit")

\* selectorModel.Update, case "enter"
SelectorEnter(m) ==
    IF Len(m.items) > 0
    THEN IF m.cursor + 1 \in 1..Len(m.items)
         THEN Result([m EXCEPT !.selected = << m.items[m.cursor + 1] >>,
                               !.done = TRUE], "Quit")
         ELSE Panic(m)
    ELSE Result([m EXCEPT !.done = TRUE], "Quit")

\* selectorModel.Update, case "down", "j"
SelectorDown(m) ==
    IF m.cursor < Len(m.items) - 1
    THEN Result([m EXCEPT !.cursor = m.cursor + 1], "nil")
    ELSE Result(m, "nil")

\* selectorModel.Update, case "up", "k"
SelectorUp(m) ==
    IF m.cursor > 0
    THEN Result([m EXCEPT !.cursor = m.cursor - 1], "nil")
    ELSE Result(m, "nil")

\* selectorModel.Update, case tea.KeyMsg
selectorUpdateKey(m, key) ==
    IF key \in CancelKeys
    THEN Case("q", Result([m EXCEPT !.done = TRUE], "Quit"))
    ELSE IF key \in UpKeys THEN Case("up", SelectorUp(m))
    ELSE IF key \in DownKeys THEN Case("down", SelectorDown(m))
    ELSE IF key = "enter" THEN Case("enter", SelectorEnter(m))
    ELSE Result(m, "nil")

\* selectorModel.Update, case tea.WindowSizeMsg
selectorUpdateWindowSize(m, size) ==
    Case("WindowSizeMsg",
         Result([m EXCEPT !.width = size[1], !.height = size[2]], "nil"))

\* The program loop of RunSelector stores the returned model and runs the
\* returned command.
SelectorApply(r) ==
    /\ selector' = r.m
    /\ cmd' = r.cmd
    /\ prog' = IF r.panic THEN "panicked"
               ELSE IF r.cmd = "Quit" THEN "quitting"
               ELSE prog
    /\ last' = [ case |-> r.case,
                 mode |-> IF selector.done THEN "SelectorDone" ELSE "Selector",
                 confirmCursor |-> 0 ]
    /\ exitErr' = IF r.panic THEN "panic" ELSE exitErr
    /\ UNCHANGED << command, worktrees, cleanVars, switchInitShell, args,
                    items, cursor, mode, confirmCursor, removed, errors,
                    width, height, removeCalls, pruneCalls >>

\* The switch command before runSwitch runs.
InitSwitch ==
    /\ command = "switch"
    /\ worktrees = <<>>
    /\ cleanMerged = FALSE
    /\ cleanStaleDays = 0
    /\ cleanDryRun = FALSE
    /\ cleanForce = FALSE
    /\ cfg = DefaultConfig
    /\ candidates = <<>>
    /\ stdin = <<>>
    /\ stdout = <<>>
    /\ exitErr = "none"
    /\ items = <<>>
    /\ cursor = 0
    /\ mode = "List"
    /\ confirmCursor = 0
    /\ removed = <<>>
    /\ errors = <<>>
    /\ width = 0
    /\ height = 0
    /\ cmd = "nil"
    /\ prog = "stopped"
    /\ removeCalls = <<>>
    /\ pruneCalls = <<>>
    /\ last = [ case |-> "none", mode |-> "List", confirmCursor |-> 0 ]
    /\ switchInitShell \in InitShells
    /\ args \in { <<>> } \cup { << q >> : q \in Queries }
    /\ selector = NewSelector(<<>>)

\* What a step of the switch command leaves alone.
switchFrame ==
    << command, cleanMerged, cleanStaleDays, cleanDryRun, cleanForce, cfg,
       candidates, stdin, switchInitShell, args, items, cursor, mode,
       confirmCursor, removed, errors, width, height, removeCalls,
       pruneCalls >>

\* runSwitch fails before it has a worktree list: git.RepoRoot or
\* git.ListWorktrees returns an error.
RunSwitchFails ==
    /\ command = "switch"
    /\ exitErr = "none"
    /\ prog = "stopped"
    /\ switchInitShell = <<>>
    /\ \E err \in { "not a git repository", "git worktree list failed" } :
        exitErr' = err
    /\ UNCHANGED << switchFrame, worktrees, stdout, selector, cmd, prog,
                    last >>

\* runSwitch runs up to its return or to the launch of the selector, with the
\* worktree list the repository gives it.
RunSwitch ==
    /\ command = "switch"
    /\ exitErr = "none"
    /\ prog = "stopped"
    /\ \E n \in 0..MaxSwitchItems : \E wts \in SwitchWorktreeLists(n) :
        LET r == runSwitch(switchInitShell, wts, args)
        IN  /\ worktrees' = IF switchInitShell # <<>> THEN <<>> ELSE wts
            /\ stdout' = r.out
            /\ exitErr' = r.err
            /\ selector' = NewSelector(r.launch)
            /\ prog' = IF r.err = "none" THEN "running" ELSE prog
    /\ UNCHANGED << switchFrame, cmd, last >>

\* The runs in which a selector session takes place: runSwitch calls
\* RunSelector, or RunSelector is called on its own.
SelectorCommands == { "switch", "selector" }

\* The key event key is delivered to the selector's Update.  Keys read before
\* the program acts on a quit command are still delivered.
SelectorKeyStep(key) ==
    /\ command \in SelectorCommands
    /\ prog \in { "running", "quitting" }
    /\ SelectorApply(selectorUpdateKey(selector, key))

SelectorKeyMsg == \E key \in Keys : SelectorKeyStep(key)

SelectorWindowSizeMsg ==
    /\ command \in SelectorCommands
    /\ prog \in { "running", "quitting" }
    /\ \E size \in WindowSizes :
        SelectorApply(selectorUpdateWindowSize(selector, size))

\* RunSelector: the program cannot run (no terminal) and p.Run returns an
\* error, which runSwitch returns.
SelectorFails ==
    /\ command = "switch"
    /\ prog = "running"
    /\ last.case = "none"
    /\ prog' = "stopped"
    /\ exitErr' = "tui error"
    /\ UNCHANGED << switchFrame, worktrees, stdout, selector, cmd, last >>

\* runSwitch, after RunSelector returned final.selected.
AfterSelector(sel) ==
    IF sel = <<>>
    THEN [ out |-> <<>>, err |-> "cancelled" ]
    ELSE [ out |-> << Line("path", <<>>, sel[1].Path) >>, err |-> "nil" ]

\* The program acts on the quit command: RunSelector returns the selection
\* and runSwitch prints it or reports the cancellation.
SelectorStop ==
    /\ command = "switch"
    /\ prog = "quitting"
    /\ prog' = "stopped"
    /\ LET r == AfterSelector(selector.selected)
       IN  /\ stdout' = stdout \o r.out
           /\ exitErr' = r.err
    /\ UNCHANGED << switchFrame, worktrees, selector, cmd, last >>

NextSwitch ==
    \/ RunSwitch
    \/ RunSwitchFails
    \/ SelectorKeyMsg
    \/ SelectorWindowSizeMsg
    \/ SelectorFails
    \/ SelectorStop

SpecSwitch == InitSwitch /\ [][NextSwitch]_vars

\* ------------------------------------------------------ cmd.matchWorktrees
\* One call of matchWorktrees, with a list of worktrees and a query.
InitMatch ==
    /\ command = "match"
    /\ \E n \in 0..MaxSwitchItems : worktrees \in SwitchWorktreeLists(n)
    /\ args \in { << q >> : q \in Queries }
    /\ cleanMerged = FALSE
    /\ cleanStaleDays = 0
    /\ cleanDryRun = FALSE
    /\ cleanForce = FALSE
    /\ cfg = DefaultConfig
    /\ candidates = <<>>
    /\ stdin = <<>>
    /\ stdout = <<>>
    /\ exitErr = "none"
    /\ items = <<>>
    /\ cursor = 0
    /\ mode = "List"
    /\ confirmCursor = 0
    /\ removed = <<>>
    /\ errors = <<>>
    /\ width = 0
    /\ height = 0
    /\ cmd = "nil"
    /\ prog = "stopped"
    /\ removeCalls = <<>>
    /\ pruneCalls = <<>>
    /\ last = [ case |-> "none", mode |-> "List", confirmCursor |-> 0 ]
    /\ switchInitShell = <<>>
    /\ selector = NewSelector(<<>>)

\* matchWorktrees(worktrees, query) is called and returns.
CallMatchWorktrees ==
    /\ command = "match"
    /\ stdout = <<>>
    /\ stdout' = << Line("matchWorktrees", <<>>,
                         matchWorktrees(worktrees, args[1])) >>
    /\ UNCHANGED << command, worktrees, cleanMerged, cleanStaleDays,
                    cleanDryRun, cleanForce, cfg, candidates, stdin,
                    switchVars, exitErr, browseVars, removeCalls,
                    pruneCalls >>

NextMatch == CallMatchWorktrees

SpecMatch == InitMatch /\ [][NextMatch]_vars

\* ------------------------------------------------------- tui.RunSelector
\* RunSelector is called with a worktree list, the empty one included: the
\* program starts on NewSelector(worktrees).
InitSelector ==
    /\ command = "selector"
    /\ \E n \in 0..MaxSwitchItems : worktrees \in SwitchWorktreeLists(n)
    /\ selector = NewSelector(worktrees)
    /\ prog = "running"
    /\ cleanMerged = FALSE
    /\ cleanStaleDays = 0
    /\ cleanDryRun = FALSE
    /\ cleanForce = FALSE
    /\ cfg = DefaultConfig
    /\ candidates = <<>>
    /\ stdin = <<>>
    /\ stdout = <<>>
    /\ exitErr = "none"
    /\ items = <<>>
    /\ cursor = 0
    /\ mode = "List"
    /\ confirmCursor = 0
    /\ removed = <<>>
    /\ errors = <<>>
    /\ width = 0
    /\ height = 0
    /\ cmd = "nil"
    /\ removeCalls = <<>>
    /\ pruneCalls = <<>>
    /\ last = [ case |-> "none", mode |-> "List", confirmCursor |-> 0 ]
    /\ switchInitShell = <<>>
    /\ args = <<>>

\* The program acts on the quit command: p.Run returns the final model and
\* RunSelector returns final.selected with a nil error.
RunSelectorReturns ==
    /\ command = "selector"
    /\ prog = "quitting"
    /\ prog' = "stopped"
    /\ exitErr' = "nil"
    /\ UNCHANGED << switchFrame, worktrees, stdout, selector, cmd, last >>

NextSelector ==
    \/ SelectorKeyMsg
    \/ SelectorWindowSizeMsg
    \/ RunSelectorReturns

SpecSelector == InitSelector /\ [][NextSelector]_vars

\* ------------------------------------------------- git.Worktree: display
\* strconv.Itoa / fmt's %d
Digits == <<"0", "1", "2", "3", "4", "5", "6", "7", "8", "9">>

RECURSIVE Itoa(_)
Itoa(n) ==
    IF n < 0 THEN <<"-">> \o Itoa(-n)
    ELSE IF n < 10 THEN << Digits[n + 1] >>
    ELSE Itoa(n \div 10) \o << Digits[(n % 10) + 1] >>

\* strings.Join
RECURSIVE Join(_, _)
Join(parts, sep) ==
    IF Len(parts) = 0 THEN <<>>
    ELSE IF Len(parts) = 1 THEN parts[1]
    ELSE parts[1] \o sep \o Join(Tail(parts), sep)

\* The texts the formatters build their results from.  The arrows are one
\* character each.
StrBare == <<"b", "a", "r", "e">>

StrClean == <<"c", "l", "e", "a", "n">>

StrModified == <<" ", "m", "o", "d", "i", "f", "i", "e", "d">>

StrUntracked == <<" ", "u", "n", "t", "r", "a", "c", "k", "e", "d">>

StrCurrent == <<"c", "u", "r", "r", "e", "n", "t">>

StrMerged == <<"m", "e", "r", "g", "e", "d">>

StrStale == <<"d", " ", "s", "t", "a", "l", "e">>

StrDash == <<"-">>

ArrowDown == "U+2193"

ArrowUp == "U+2191"

\* Worktree.IsClean
IsClean(w) == w.Modified = 0 /\ w.Untracked = 0

\* Variant of StatusText: the untracked count is not looked at.
StatusText_ModifiedOnly(w) ==
    IF w.IsBare THEN StrBare
    ELSE IF w.Modified = 0 THEN StrClean
    ELSE Itoa(w.Modified) \o StrModified

\* Worktree.StatusText
StatusText(w) ==
    IF w.IsBare THEN StrBare
    ELSE IF IsClean(w) THEN StrClean
    ELSE Join((IF w.Modified > 0
               THEN << Itoa(w.Modified) \o StrModified >> ELSE <<>>)
              \o (IF w.Untracked > 0
                  THEN << Itoa(w.Untracked) \o StrUntracked >> ELSE <<>>),
              <<",", " ">>)

\* Variant of SyncText: the ahead indicator comes first.
SyncText_AheadFirst(w) ==
    IF w.Ahead = 0 /\ w.Behind = 0 THEN StrDash
    ELSE Join((IF w.Ahead > 0
               THEN << << ArrowUp >> \o Itoa(w.Ahead) >> ELSE <<>>)
              \o (IF w.Behind > 0
                  THEN << << ArrowDown >> \o Itoa(w.Behind) >> ELSE <<>>),
              <<" ">>)

\* Worktree.SyncText
SyncText(w) ==
    IF w.Ahead = 0 /\ w.Behind = 0 THEN StrDash
    ELSE Join((IF w.Behind > 0
               THEN << << ArrowDown >> \o Itoa(w.Behind) >> ELSE <<>>)
              \o (IF w.Ahead > 0
                  THEN << << ArrowUp >> \o Itoa(w.Ahead) >> ELSE <<>>),
              <<" ">>)

\* lipgloss Style.Render: the text with the style's escape codes around it.
Render(style, text) == [ style |-> style, text |-> text ]

\* The tags joined and bracketed, as a sequence of rendered pieces; the empty
\* sequence is the empty string.
Bracketed(tags) ==
    IF Len(tags) = 0 THEN <<>>
    ELSE << Render("dimStyle", <<"[">>) >>
         \o Join([ j \in 1..Len(tags) |-> << tags[j] >> ],
                 << Render("dimStyle", <<",", " ">>) >>)
         \o << Render("dimStyle", <<"]">>) >>

\* Variant of BuildTags: the merged tag comes before the dirty status.
BuildTags_MergedFirst(wt) ==
    LET sync == SyncText(wt)
        days == InactiveDays(wt)
    IN  Bracketed(
            (IF wt.IsCurrent
             THEN << Render("currentStyle", StrCurrent) >> ELSE <<>>)
            \o (IF wt.IsMerged
                THEN << Render("mergedStyle", StrMerged) >> ELSE <<>>)
            \o (IF ~IsClean(wt)
                THEN << Render("dirtyStyle", StatusText(wt)) >> ELSE <<>>)
            \o (IF sync # StrDash
                THEN << Render("dimStyle", sync) >> ELSE <<>>)
            \o (IF days > 30
                THEN << Render("staleStyle", Itoa(days) \o StrStale) >>
                ELSE <<>>))

\* tui.BuildTags
BuildTags(wt) ==
    LET sync == SyncText(wt)
        days == InactiveDays(wt)
    IN  Bracketed(
            (IF wt.IsCurrent
             THEN << Render("currentStyle", StrCurrent) >> ELSE <<>>)
            \o (IF ~IsClean(wt)
                THEN << Render("dirtyStyle", StatusText(wt)) >> ELSE <<>>)
            \o (IF wt.IsMerged
                THEN << Render("mergedStyle", StrMerged) >> ELSE <<>>)
            \o (IF sync # StrDash
                THEN << Render("dimStyle", sync) >> ELSE <<>>)
            \o (IF days > 30
                THEN << Render("staleStyle", Itoa(days) \o StrStale) >>
                ELSE <<>>))

\* Variant of buildTags: the stale tag follows cleanup.stale_days.
buildTags_ConfigThreshold(wt) ==
    LET sync == SyncText(wt)
        days == InactiveDays(wt)
    IN  Bracketed(
            (IF wt.IsCurrent
             THEN << Render("currentStyle", StrCurrent) >> ELSE <<>>)
            \o (IF ~IsClean(wt)
                THEN << Render("dirtyStyle", StatusText(wt)) >> ELSE <<>>)
            \o (IF wt.IsMerged
                THEN << Render("mergedStyle", StrMerged) >> ELSE <<>>)
            \o (IF sync # StrDash
                THEN << Render("dimStyle", sync) >> ELSE <<>>)
            \o (IF days > cfg.StaleDays
                THEN << Render("staleStyle", Itoa(days) \o StrStale) >>
                ELSE <<>>))

\* model.buildTags
buildTags(wt) ==
    LET sync == SyncText(wt)
        days == InactiveDays(wt)
    IN  Bracketed(
            (IF wt.IsCurrent
             THEN << Render("currentStyle", StrCurrent) >> ELSE <<>>)
            \o (IF ~IsClean(wt)
                THEN << Render("dirtyStyle", StatusText(wt)) >> ELSE <<>>)
            \o (IF wt.IsMerged
                THEN << Render("mergedStyle", StrMerged) >> ELSE <<>>)
            \o (IF sync # StrDash
                THEN << Render("dimStyle", sync) >> ELSE <<>>)
            \o (IF days > 30
                THEN << Render("staleStyle", Itoa(days) \o StrStale) >>
                ELSE <<>>))

\* printWorktreeTable: the sync column of a row, as the pieces it is put
\* together from.
TableSync(wt) ==
    LET days == InactiveDays(wt)
    IN  << Render("plain", SyncText(wt)) >>
        \o (IF wt.IsMerged
            THEN << Render("plain", <<" ">>),
                    Render("green", <<"(">> \o StrMerged \o <<")">>) >>
            ELSE <<>>)
        \o (IF days > 30
            THEN << Render("plain", <<" ">>),
                    Render("red", <<"(">> \o Itoa(days) \o StrStale
                                  \o <<")">>) >>
            ELSE <<>>)

\* The configurations the views run under: the default, and thresholds
\* other than 30 days.
DisplayConfigs == { DefaultConfig } \cup { c \in Configs : c.AutoPrune }

\* The counts EnrichWorktree finds.
StatusCounts == { 0, 1, 12 }

AheadCounts == { 0, 3 }

BehindCounts == { 0, 10 }

\* The last-commit times EnrichWorktree finds: none; now; a second less than
\* a day, a day, 30 days and 31 days ago; and, with a clock that is behind
\* the committer's, an hour, a day and a day and a half ahead.
DisplayLastCommits ==
    { ZeroTime, UnixTime(Now), UnixTime(Now - DaySecs + 1),
      UnixTime(Now - DaySecs), UnixTime(Now - 30 * DaySecs),
      UnixTime(Now - 31 * DaySecs), UnixTime(Now + 3600),
      UnixTime(Now + DaySecs), UnixTime(Now + DaySecs + DaySecs \div 2) }

\* The records a formatter is called on: a bare record, which EnrichWorktree
\* leaves at its zero values, or an enriched record on a branch.
DisplayWorktrees ==
    { [Path |-> Paths[1], Branch |-> <<>>, IsBare |-> TRUE,
       IsDetached |-> FALSE, IsCurrent |-> c, Modified |-> 0,
       Untracked |-> 0, Ahead |-> 0, Behind |-> 0, IsMerged |-> FALSE,
       LastCommit |-> ZeroTime] : c \in BOOLEAN }
    \cup
    { [Path |-> Paths[2], Branch |-> RefsHeads \o BranchNames[2],
       IsBare |-> FALSE, IsDetached |-> FALSE, IsCurrent |-> c,
       Modified |-> mo, Untracked |-> un, Ahead |-> ah, Behind |-> be,
       IsMerged |-> g, LastCommit |-> t]
        : c \in BOOLEAN, mo \in StatusCounts, un \in StatusCounts,
          ah \in AheadCounts, be \in BehindCounts, g \in BOOLEAN,
          t \in DisplayLastCommits }

\* One call of a formatter on one record, as the views make them.
InitFormat ==
    /\ command = "format"
    /\ \E wt \in DisplayWorktrees : worktrees = << wt >>
    /\ cleanMerged = FALSE
    /\ cleanStaleDays = 0
    /\ cleanDryRun = FALSE
    /\ cleanForce = FALSE
    /\ cfg \in DisplayConfigs
    /\ candidates = <<>>
    /\ stdin = <<>>
    /\ stdout = <<>>
    /\ exitErr = "none"
    /\ items = <<>>
    /\ cursor = 0
    /\ mode = "List"
    /\ confirmCursor = 0
    /\ removed = <<>>
    /\ errors = <<>>
    /\ width = 0
    /\ height = 0
    /\ cmd = "nil"
    /\ prog = "stopped"
    /\ removeCalls = <<>>
    /\ pruneCalls = <<>>
    /\ last = [ case |-> "none", mode |-> "List", confirmCursor |-> 0 ]
    /\ switchInitShell = <<>>
    /\ args = <<>>
    /\ selector = NewSelector(<<>>)

\* The formatter named kind returns result.
Returns(kind, result) ==
    /\ command = "format"
    /\ stdout = <<>>
    /\ stdout' = << Line(kind, <<>>, result) >>
    /\ UNCHANGED << command, worktrees, cleanMerged, cleanStaleDays,
                    cleanDryRun, cleanForce, cfg, candidates, stdin,
                    switchVars, exitErr, browseVars, removeCalls,
                    pruneCalls >>

CallStatusText == Returns("StatusText", StatusText(worktrees[1]))

CallSyncText == Returns("SyncText", SyncText(worktrees[1]))

CallInactiveDays == Returns("InactiveDays", InactiveDays(worktrees[1]))

CallBuildTags == Returns("BuildTags", BuildTags(worktrees[1]))

CallModelBuildTags == Returns("buildTags", buildTags(worktrees[1]))

CallTableSync == Returns("TableSync", TableSync(worktrees[1]))

NextFormat ==
    \/ CallStatusText
    \/ CallSyncText
    \/ CallInactiveDays
    \/ CallBuildTags
    \/ CallModelBuildTags
    \/ CallTableSync

SpecFormat == InitFormat /\ [][NextFormat]_vars

\* ------------------------------------------------------------ package git
\* Largest number of worktrees `git worktree list` reports to the calls of
\* package git.
MaxGitItems == 2

\* The records ListWorktrees returns at position i, before enrichment: only
\* the first entry can be bare; an entry is detached, or on the default
\* branch (the first entry) or a feature branch.
ListedWorktreeAt(i) ==
    { r \in
        { [Path |-> Paths[i], Branch |-> b, IsBare |-> bare,
           IsDetached |-> (~bare /\ b = <<>>), IsCurrent |-> (i = 1),
           Modified |-> 0, Untracked |-> 0, Ahead |-> 0, Behind |-> 0,
           IsMerged |-> FALSE, LastCommit |-> ZeroTime]
            : b \in { <<>>, RefsHeads \o BranchNames[i] }
                    \cup (IF i = 1 THEN { RefsHeads \o DefaultBranchName }
                                   ELSE {}),
              bare \in IF i = 1 THEN BOOLEAN ELSE { FALSE } }
        : r.IsBare => r.Branch = <<>> }

RECURSIVE ListedWorktrees(_)
ListedWorktrees(n) ==
    IF n = 0 THEN { <<>> }
    ELSE { Append(s, w) :
            s \in ListedWorktrees(n - 1), w \in ListedWorktreeAt(n) }

\* What the git commands of EnrichWorktree find in a worktree: whether its
\* directory exists; the modified and untracked entries of `git status
\* --porcelain`; whether `git rev-list --left-right --count` has an upstream
\* to count against, and the counts; the branches `git branch --merged`
\* lists (none when it fails); the time `git log -1 --format=%ct` prints
\* (the zero time when it fails or prints nothing).
RepoFacts ==
    { [exists |-> FALSE, modified |-> 1, untracked |-> 1, upstream |-> TRUE,
       ahead |-> 3, behind |-> 10,
       merged |-> { BranchNames[j] : j \in 1..Len(BranchNames) },
       lastCommit |-> UnixTime(Now - 2 * DaySecs)] }
    \cup
    { [exists |-> TRUE, modified |-> mo, untracked |-> un, upstream |-> up,
       ahead |-> 3, behind |-> 10, merged |-> mg, lastCommit |-> t]
        : mo \in { 0, 1 }, un \in { 0, 1 }, up \in BOOLEAN,
          mg \in { {},
                   { DefaultBranchName }
                       \cup { BranchNames[j] : j \in 1..Len(BranchNames) } },
          t \in LastCommits }

\* Variant of EnrichWorktree: the default branch is tested for being merged
\* like any other.
EnrichWorktree_NoDefaultTest(w, defaultBranch, facts) ==
    IF w.IsBare THEN w
    ELSE IF ~facts.exists THEN w
    ELSE
        LET branch == BranchShort(w)
        IN  [w EXCEPT
                !.Modified = @ + facts.modified,
                !.Untracked = @ + facts.untracked,
                !.Ahead = IF facts.upstream THEN facts.ahead ELSE @,
                !.Behind = IF facts.upstream THEN facts.behind ELSE @,
                !.IsMerged = IF branch # <<>> /\ branch \in facts.merged
                             THEN TRUE ELSE @,
                !.LastCommit = IF facts.lastCommit.IsZero
                               THEN @ ELSE facts.lastCommit]

\* Variant of EnrichWorktree: a bare record is enriched like any other.
EnrichWorktree_NoBareCheck(w, defaultBranch, facts) ==
    IF ~facts.exists THEN w
    ELSE
        LET branch == BranchShort(w)
        IN  [w EXCEPT
                !.Modified = @ + facts.modified,
                !.Untracked = @ + facts.untracked,
                !.Ahead = IF facts.upstream THEN facts.ahead ELSE @,
                !.Behind = IF facts.upstream THEN facts.behind ELSE @,
                !.IsMerged = IF /\ branch # <<>>
                                /\ branch # defaultBranch
                                /\ branch \in facts.merged
                             THEN TRUE ELSE @,
                !.LastCommit = IF facts.lastCommit.IsZero
                               THEN @ ELSE facts.lastCommit]

\* git.EnrichWorktree
EnrichWorktree(w, defaultBranch, facts) ==
    IF w.IsBare THEN w
    ELSE IF ~facts.exists THEN w
    ELSE
        LET branch == BranchShort(w)
        IN  [w EXCEPT
                !.Modified = @ + facts.modified,
                !.Untracked = @ + facts.untracked,
                !.Ahead = IF facts.upstream THEN facts.ahead ELSE @,
                !.Behind = IF facts.upstream THEN facts.behind ELSE @,
                !.IsMerged = IF /\ branch # <<>>
                                /\ branch # defaultBranch
                                /\ branch \in facts.merged
                             THEN TRUE ELSE @,
                !.LastCommit = IF facts.lastCommit.IsZero
                               THEN @ ELSE facts.lastCommit]

\* One git command RemoveWorktree runs, with what it returned.
GitRun(command_, branch, err) == Line(command_, branch, err)

\* RemoveWorktree: the branch of the worktree at wtPath, looked up before the
\* removal; empty when the branch is not to be deleted, ListWorktrees fails
\* or no worktree has that path.
RemovedBranch(wts, listErr, wtPath, deleteBranch) ==
    IF /\ deleteBranch
       /\ listErr = NoErr
       /\ \E i \in 1..Len(wts) : wts[i].Path = wtPath
    THEN BranchShort(wts[CHOOSE i \in 1..Len(wts) :
                            /\ wts[i].Path = wtPath
                            /\ \A j \in 1..(i - 1) : wts[j].Path # wtPath])
    ELSE <<>>

\* Variant of RemoveWorktree: a failed branch deletion is returned.
RemoveWorktree_BranchErrorFails(wts, wtPath, deleteBranch, out) ==
    LET branchName == RemovedBranch(wts, out.list, wtPath, deleteBranch)
        removal ==
            (IF deleteBranch
             THEN << GitRun("git worktree list", <<>>, out.list) >>
             ELSE <<>>)
            \o << GitRun("git worktree remove", <<>>, out.remove) >>
            \o (IF out.remove # NoErr
                THEN << GitRun("git worktree remove --force", <<>>,
                               out.force) >>
                ELSE <<>>)
    IN  IF out.remove # NoErr /\ out.force # NoErr
        THEN Append(removal, Line("return", <<>>, out.force))
        ELSE IF deleteBranch /\ branchName # <<>>
        THEN removal
             \o << GitRun("git branch -d", branchName, out.branch),
                   Line("return", <<>>, out.branch) >>
        ELSE Append(removal, Line("return", <<>>, NoErr))

\* git.RemoveWorktree: the git commands it runs, in order, and what it
\* returns.  out is what each command would return.
RemoveWorktree(wts, wtPath, deleteBranch, out) ==
    LET branchName == RemovedBranch(wts, out.list, wtPath, deleteBranch)
        removal ==
            (IF deleteBranch
             THEN << GitRun("git worktree list", <<>>, out.list) >>
             ELSE <<>>)
            \o << GitRun("git worktree remove", <<>>, out.remove) >>
            \o (IF out.remove # NoErr
                THEN << GitRun("git worktree remove --force", <<>>,
                               out.force) >>
                ELSE <<>>)
    IN  IF out.remove # NoErr /\ out.force # NoErr
        THEN Append(removal, Line("return", <<>>, out.force))
        ELSE (IF deleteBranch /\ branchName # <<>>
              THEN Append(removal,
                          GitRun("git branch -d", branchName, out.branch))
              ELSE removal)
             \o << Line("return", <<>>, NoErr) >>

\* What the git commands of one RemoveWorktree call would return.
GitOutcomes ==
    [ list : RemoveResults, remove : RemoveResults, force : RemoveResults,
      branch : RemoveResults ]

\* One call of a function of package git, in a repository with the listed
\* worktrees.
InitGit ==
    /\ command = "git"
    /\ \E n \in 1..MaxGitItems : worktrees \in ListedWorktrees(n)
    /\ cleanMerged = FALSE
    /\ cleanStaleDays = 0
    /\ cleanDryRun = FALSE
    /\ cleanForce = FALSE
    /\ cfg = DefaultConfig
    /\ candidates = <<>>
    /\ stdin = <<>>
    /\ stdout = <<>>
    /\ exitErr = "none"
    /\ items = <<>>
    /\ cursor = 0
    /\ mode = "List"
    /\ confirmCursor = 0
    /\ removed = <<>>
    /\ errors = <<>>
    /\ width = 0
    /\ height = 0
    /\ cmd = "nil"
    /\ prog = "stopped"
    /\ removeCalls = <<>>
    /\ pruneCalls = <<>>
    /\ last = [ case |-> "none", mode |-> "List", confirmCursor |-> 0 ]
    /\ switchInitShell = <<>>
    /\ args = <<>>
    /\ selector = NewSelector(<<>>)

gitFrame ==
    UNCHANGED << command, cleanMerged, cleanStaleDays, cleanDryRun,
                 cleanForce, cfg, candidates, stdin, switchVars, exitErr,
                 browseVars, removeCalls, pruneCalls >>

\* EnrichWorktree is called on the record at position i, as the commands do
\* for each record of the list; the record is enriched in place.
CallEnrichWorktree ==
    /\ command = "git"
    /\ stdout = <<>>
    /\ \E i \in 1..Len(worktrees) : \E facts \in RepoFacts :
        /\ worktrees' = [worktrees EXCEPT
                            ![i] = EnrichWorktree(@, DefaultBranchName, facts)]
        /\ stdout' = << Line("EnrichWorktree", <<>>,
                             [ index |-> i, before |-> worktrees[i],
                               facts |-> facts ]) >>
    /\ gitFrame

\* EnrichWorktree is called a second time on the record it has enriched, in
\* a repository that has not changed.
CallEnrichWorktreeAgain ==
    /\ command = "git"
    /\ Len(stdout) = 1
    /\ stdout[1].kind = "EnrichWorktree"
    /\ LET i == stdout[1].detail.index
           facts == stdout[1].detail.facts
       IN  /\ worktrees' = [worktrees EXCEPT
                    ![i] = EnrichWorktree(@, DefaultBranchName, facts)]
           /\ stdout' = Append(stdout,
                    Line("EnrichWorktree", <<>>,
                         [ index |-> i, before |-> worktrees[i],
                           facts |-> facts ]))
    /\ gitFrame

\* RemoveWorktree is called for a path, of a listed worktree or not.
CallRemoveWorktree ==
    /\ command = "git"
    /\ stdout = <<>>
    /\ \E wtPath \in { worktrees[i].Path : i \in 1..Len(worktrees) }
                     \cup { Paths[Len(Paths)] } :
       \E deleteBranch \in BOOLEAN : \E out \in GitOutcomes :
        stdout' = << Line("RemoveWorktree", <<>>,
                          [ path |-> wtPath, deleteBranch |-> deleteBranch ]) >>
                  \o RemoveWorktree(worktrees, wtPath, deleteBranch, out)
    /\ UNCHANGED worktrees
    /\ gitFrame

NextGit ==
    \/ CallEnrichWorktree
    \/ CallEnrichWorktreeAgain
    \/ CallRemoveWorktree

SpecGit == InitGit /\ [][NextGit]_vars

\* ------------------------------------------------------- git.ListWorktrees
\* Largest number of worktrees `git worktree list --porcelain` reports to
\* ListWorktrees.
MaxListItems == 3

\* The directory of the main worktree.
MainDir == <<"/", "r">>

\* Where a linked worktree with the sanitized branch name b is created,
\* Config.WorktreePath: next to the repository (adjacent, <repo>-<branch>) or
\* inside it (subdirectory, <repo>/.worktrees/<branch>; the directory
\* .worktrees is written w).
WorktreePath(strategy, b) ==
    IF strategy = "subdirectory"
    THEN MainDir \o <<"/", "w", "/">> \o b
    ELSE MainDir \o <<"-">> \o b

\* The records the scanner loop of ListWorktrees builds from the output of
\* git, at position i: the main worktree (bare or on the default branch),
\* then linked worktrees, each in one of the two layouts and on a branch or
\* detached.
ParsedWorktreeAt(i) ==
    IF i = 1
    THEN { [Path |-> MainDir, Branch |-> b, IsBare |-> (b = <<>>),
            IsDetached |-> FALSE, IsCurrent |-> FALSE]
            : b \in { <<>>, RefsHeads \o DefaultBranchName } }
    ELSE { [Path |-> WorktreePath(st, BranchNames[i]), Branch |-> b,
            IsBare |-> FALSE, IsDetached |-> (b = <<>>),
            IsCurrent |-> FALSE]
            : st \in { "adjacent", "subdirectory" },
              b \in { <<>>, RefsHeads \o BranchNames[i] } }

RECURSIVE ParsedWorktrees(_)
ParsedWorktrees(n) ==
    IF n = 0 THEN { <<>> }
    ELSE { Append(s, w) :
            s \in ParsedWorktrees(n - 1), w \in ParsedWorktreeAt(n) }

\* The directories the command can be invoked from: a worktree's directory,
\* a directory below it (s), or a directory outside every worktree.
WorkingDirs(wts) ==
    { wts[i].Path : i \in 1..Len(wts) }
    \cup { wts[i].Path \o <<"/", "s">> : i \in 1..Len(wts) }
    \cup { <<"/", "x">> }

\* ListWorktrees, "Determine which one is current": every record whose path
\* is cwd or a directory above it is marked; none if os.Getwd fails.
MarkCurrent(wts, cwd, cwdErr) ==
    IF cwdErr # NoErr THEN wts
    ELSE [ i \in 1..Len(wts) |->
            IF cwd = wts[i].Path \/ HasPrefix(cwd, wts[i].Path \o <<"/">>)
            THEN [wts[i] EXCEPT !.IsCurrent = TRUE]
            ELSE wts[i] ]

\* What a call of ListWorktrees leaves alone.
gitFrameList ==
    UNCHANGED << command, cleanMerged, cleanStaleDays, cleanDryRun,
                 cleanForce, cfg, candidates, stdin, switchVars, browseVars,
                 removeCalls, pruneCalls >>

\* One call of ListWorktrees.
InitList ==
    /\ command = "list"
    /\ worktrees = <<>>
    /\ cleanMerged = FALSE
    /\ cleanStaleDays = 0
    /\ cleanDryRun = FALSE
    /\ cleanForce = FALSE
    /\ cfg = DefaultConfig
    /\ candidates = <<>>
    /\ stdin = <<>>
    /\ stdout = <<>>
    /\ exitErr = "none"
    /\ items = <<>>
    /\ cursor = 0
    /\ mode = "List"
    /\ confirmCursor = 0
    /\ removed = <<>>
    /\ errors = <<>>
    /\ width = 0
    /\ height = 0
    /\ cmd = "nil"
    /\ prog = "stopped"
    /\ removeCalls = <<>>
    /\ pruneCalls = <<>>
    /\ last = [ case |-> "none", mode |-> "List", confirmCursor |-> 0 ]
    /\ switchInitShell = <<>>
    /\ args = <<>>
    /\ selector = NewSelector(<<>>)

\* ListWorktrees is called from the directory cwd and returns the records of
\* the worktrees git reports.
CallListWorktrees ==
    /\ command = "list"
    /\ exitErr = "none"
    /\ \E n \in 1..MaxListItems : \E wts \in ParsedWorktrees(n) :
       \E cwd \in WorkingDirs(wts) : \E cwdErr \in RemoveResults :
        /\ worktrees' = MarkCurrent(wts, cwd, cwdErr)
        /\ stdout' = << Line("ListWorktrees", <<>>,
                             [ cwd |-> cwd, cwdErr |-> cwdErr ]) >>
        /\ exitErr' = "nil"
    /\ gitFrameList

\* ListWorktrees returns the error of `git worktree list`.
CallListWorktreesFails ==
    /\ command = "list"
    /\ exitErr = "none"
    /\ exitErr' = "git worktree list failed"
    /\ UNCHANGED << worktrees, stdout >>
    /\ gitFrameList

NextList == CallListWorktrees \/ CallListWorktreesFails

SpecList == InitList /\ [][NextList]_vars

\* Execute: the exit status of the process once the command has returned
\* exitErr; a fault in Update ends the process with the Go runtime's status.
ExitCode ==
    IF exitErr = "nil" THEN 0
    ELSE IF exitErr = "panic" THEN 2
    ELSE 1

\* Any command.
\* The two interactive sessions: the browser and the switch selector.
InitTui == Init \/ InitSwitch

NextTui == Next \/ NextSwitch

SpecTui == InitTui /\ [][NextTui]_vars

\* The two commands that remove worktrees: the browser and clean.
InitRemoval == Init \/ InitClean

NextRemoval == Next \/ NextClean

SpecRemoval == InitRemoval /\ [][NextRemoval]_vars

\* The browser, or a call of package git.
InitEnrichBrowse == Init \/ InitGit

NextEnrichBrowse == Next \/ NextGit

SpecEnrichBrowse == InitEnrichBrowse /\ [][NextEnrichBrowse]_vars

\* Any command, or a call of a formatter or of package git.
InitAll == Init \/ InitClean \/ InitSwitch \/ InitFormat \/ InitGit

NextAll == Next \/ NextClean \/ NextSwitch \/ NextFormat \/ NextGit

SpecAll == InitAll /\ [][NextAll]_vars

TypeOK ==
    /\ mode \in { "List", "Confirm", "Done" }
    /\ confirmCursor \in { 0, 1 }
    /\ cmd \in { "nil", "Quit" }
    /\ prog \in { "running", "quitting", "stopped", "panicked" }
    /\ Len(pruneCalls) \in 0..1

\* ------------------------------------------------------------- properties
\* The frame of a handler that returns the model as it got it.
ModelUnchanged ==
    UNCHANGED << items, cursor, mode, confirmCursor, removed, errors,
                 width, height >>

\* The checked items, in list order.
CheckedItems == SelectSeq(items, LAMBDA it : it.checked)

\* The elements of seq at the positions in S, in order.
Pick(seq, S) ==
    LET idx == [ j \in 1..Len(seq) |-> j ]
        sel == SelectSeq(idx, LAMBDA j : j \in S)
    IN  [ j \in 1..Len(sel) |-> seq[sel[j]] ]

\* The elements of a sequence.
Range(seq) == { seq[j] : j \in 1..Len(seq) }

\* C1: no item whose worktree is current is ever checked, and
\* git.RemoveWorktree is never called on the path of a current worktree.
C1_CurrentNeverChecked ==
    /\ \A i \in 1..Len(items) :
        items[i].worktree.IsCurrent => ~items[i].checked
    /\ \A j \in 1..Len(removeCalls) : \A i \in 1..Len(items) :
        items[i].worktree.Path = removeCalls[j].path
            => ~items[i].worktree.IsCurrent

\* A toggle key was processed in List mode with the cursor on a current item,
\* in a session where another item is checked.
C1_Witness ==
    /\ last.case = " "
    /\ last.mode = "List"
    /\ mode = "List"
    /\ prog # "panicked"
    /\ Len(items) > 0
    /\ items[cursor + 1].worktree.IsCurrent
    /\ \E i \in 1..Len(items) : items[i].checked

\* C2: git.RemoveWorktree is called only by a step that processes, in Confirm
\* mode, the key y or the key enter with confirmCursor on Yes; Confirm is
\* entered only from List with at least one checked item.
C2_RemovalOnlyOnConfirm ==
    [][ /\ removeCalls' # removeCalls =>
            /\ mode = "Confirm"
            /\ \/ KeyStep("y")
               \/ KeyStep("enter") /\ confirmCursor = 1
        /\ (mode # "Confirm" /\ mode' = "Confirm") =>
            /\ mode = "List"
            /\ selectedCount(CurModel) > 0 ]_vars

\* Enter was processed in Confirm mode on Yes and removal ran.
C2_Witness ==
    /\ last.case = "enter"
    /\ last.mode = "Confirm"
    /\ last.confirmCursor = 1
    /\ mode = "Done"
    /\ Len(removeCalls) > 0

\* C3: d or enter in List mode changes nothing when no item is checked, and
\* otherwise enters Confirm with confirmCursor = 0, whatever it was before.
C3_RequestDeletion ==
    [][ \A key \in { "d", "enter" } : (mode = "List" /\ KeyStep(key)) =>
            IF selectedCount(CurModel) = 0
            THEN /\ ModelUnchanged
                 /\ cmd' = "nil"
                 /\ UNCHANGED << prog, removeCalls, pruneCalls >>
            ELSE /\ mode' = "Confirm"
                 /\ confirmCursor' = 0 ]_vars

\* Confirm was entered again after a visit that left confirmCursor on Yes.
C3_Witness ==
    /\ last.case = "d"
    /\ last.mode = "List"
    /\ last.confirmCursor = 1
    /\ mode = "Confirm"
    /\ confirmCursor = 0

\* C4: in Confirm mode the key n, a cancel key, and enter on No return to
\* List, call no removal and leave every item as it was.
C4_ConfirmBackToList ==
    [][ ( /\ mode = "Confirm"
          /\ \/ \E key \in { "n", "q", "ctrl+c", "esc" } : KeyStep(key)
             \/ KeyStep("enter") /\ confirmCursor = 0 ) =>
            /\ mode' = "List"
            /\ items' = items
            /\ UNCHANGED << removeCalls, pruneCalls >> ]_vars

\* Enter on No was processed in Confirm mode; the selection is still there.
C4_Witness ==
    /\ last.case = "enter"
    /\ last.mode = "Confirm"
    /\ last.confirmCursor = 0
    /\ mode = "List"
    /\ selectedCount(CurModel) > 0

\* C5: once removal has run, git.RemoveWorktree was called exactly once per
\* checked item and for no other, in list order; removed and errors hold the
\* names of the succeeded and of the failed items, each in list order.
C5_RemovalInListOrder ==
    IF mode = "Done"
    THEN LET cs == CheckedItems IN
         /\ Len(removeCalls) = Len(cs)
         /\ \A j \in 1..Len(cs) : removeCalls[j].path = cs[j].worktree.Path
         /\ \E ok \in SUBSET (1..Len(cs)) :
             LET good == Pick(cs, ok)
                 bad == Pick(cs, (1..Len(cs)) \ ok)
             IN  /\ Len(removed) = Len(good)
                 /\ \A j \in 1..Len(good) :
                     removed[j] = BranchShort(good[j].worktree)
                 /\ Len(errors) = Len(bad)
                 /\ \A j \in 1..Len(bad) : \E c \in Causes :
                     errors[j] = ErrorLine(BranchShort(bad[j].worktree), c)
    ELSE removeCalls = <<>> /\ removed = <<>> /\ errors = <<>>

\* Removal ran over two checked items.
C5_Witness ==
    /\ mode = "Done"
    /\ Len(removeCalls) = 2
    /\ removeCalls[1].path = items[1].worktree.Path

\* runClean went past the dry-run exit and the prompt into its removal loop.
CleanRemovalRan ==
    /\ command = "clean"
    /\ exitErr = "nil"
    /\ Len(candidates) > 0
    /\ ~cleanDryRun
    /\ cleanForce \/ Confirmed(stdin)

\* C6: no fail-fast.  Once the browser's removal has run, every checked item
\* was attempted and is in exactly one of removed (its short name) and errors
\* ("<name>: <cause>"), so the two lists together are as long as the
\* selection; in Confirm the key y, and enter on Yes, end in Done whatever
\* the outcomes of the removals.  Once clean's removal loop has run, every candidate was
\* attempted, in order, and has its "Removed" or "Failed to remove" line.
C6_NoFailFast ==
    /\ []((command = "browse" /\ mode = "Done") =>
            /\ Len(removeCalls) = selectedCount(CurModel)
            /\ Len(removed) + Len(errors) = selectedCount(CurModel)
            /\ \A i \in 1..Len(items) :
                LET name == BranchShort(items[i].worktree)
                    paths == { removeCalls[j].path : j \in 1..Len(removeCalls) }
                    inRemoved == name \in Range(removed)
                    inErrors == \E c \in Causes :
                                    ErrorLine(name, c) \in Range(errors)
                IN  IF items[i].checked
                    THEN /\ items[i].worktree.Path \in paths
                         /\ inRemoved # inErrors
                    ELSE /\ items[i].worktree.Path \notin paths
                         /\ ~inRemoved
                         /\ ~inErrors)
    /\ []((command = "browse" /\ mode = "Confirm") =>
            \A res \in Outcomes(CurModel) :
                /\ UpdateKey(CurModel, "y", res).m.mode = "Done"
                /\ confirmCursor = 1 =>
                    UpdateKey(CurModel, "enter", res).m.mode = "Done")
    /\ [](CleanRemovalRan =>
            /\ Len(removeCalls) = Len(candidates)
            /\ \A j \in 1..Len(candidates) :
                /\ removeCalls[j].path = candidates[j].worktree.Path
                /\ \E l \in Range(stdout) :
                    /\ l.kind \in { "Removed", "Failed to remove" }
                    /\ l.branch = BranchShort(candidates[j].worktree))

\* The browser's removal ran over two checked items; the first removal
\* failed and the second was still attempted and succeeded.
C6_Witness ==
    /\ command = "browse"
    /\ mode = "Done"
    /\ Len(items) >= 2
    /\ items[1].checked /\ items[2].checked
    /\ \E c \in Causes :
        errors = << ErrorLine(BranchShort(items[1].worktree), c) >>
    /\ removed = << BranchShort(items[2].worktree) >>

\* clean's removal loop ran over two candidates; the first removal failed
\* and the second was still attempted and succeeded.
C6_WitnessClean ==
    /\ CleanRemovalRan
    /\ Len(candidates) >= 2
    /\ \E l \in Range(stdout) :
        /\ l.kind = "Failed to remove"
        /\ l.branch = BranchShort(candidates[1].worktree)
    /\ \E l \in Range(stdout) :
        /\ l.kind = "Removed"
        /\ l.branch = BranchShort(candidates[2].worktree)

\* C7: in Done every step keeps mode, removed, errors and the collaborator
\* calls as they are, and every key event returns tea.Quit; removal runs at
\* most once in a session.
C7_DoneIsTerminal ==
    [][ /\ mode = "Done" =>
            /\ mode' = "Done"
            /\ UNCHANGED << removed, errors, removeCalls, pruneCalls >>
            /\ KeyMsg => cmd' = "Quit" /\ prog' = "quitting"
        /\ pruneCalls' # pruneCalls =>
            pruneCalls = <<>> /\ Len(pruneCalls') = 1
        /\ removeCalls' # removeCalls => removeCalls = <<>> ]_vars

\* A key was processed in Done mode, after a removal.
C7_Witness ==
    /\ last.case = "any"
    /\ last.mode = "Done"
    /\ mode = "Done"
    /\ cmd = "Quit"
    /\ Len(removeCalls) > 0

\* C8: a cancel key in List mode returns tea.Quit and changes nothing in the
\* model and calls neither removal nor prune.
C8_QuitFromListNoMutation ==
    [][ \A key \in { "q", "ctrl+c", "esc" } : (mode = "List" /\ KeyStep(key)) =>
            /\ cmd' = "Quit"
            /\ prog' = "quitting"
            /\ ModelUnchanged
            /\ UNCHANGED << removeCalls, pruneCalls >> ]_vars

\* A cancel key was processed in List mode while items were checked.
C8_Witness ==
    /\ last.case = "q"
    /\ last.mode = "List"
    /\ mode = "List"
    /\ cmd = "Quit"
    /\ selectedCount(CurModel) > 0

\* C9: the key a in List mode checks exactly the non-current merged items,
\* keeps every other checked flag, and keeps cursor and mode.
C9_SelectMerged ==
    [][ (mode = "List" /\ KeyStep("a")) =>
            /\ Len(items') = Len(items)
            /\ \A i \in 1..Len(items) :
                /\ items'[i].worktree = items[i].worktree
                /\ items'[i].checked =
                    IF /\ ~items[i].worktree.IsCurrent
                       /\ items[i].worktree.IsMerged
                    THEN TRUE
                    ELSE items[i].checked
            /\ UNCHANGED << cursor, mode >> ]_vars

\* The key a was processed with a checked unmerged item and a merged item.
C9_Witness ==
    /\ last.case = "a"
    /\ last.mode = "List"
    /\ mode = "List"
    /\ \E i \in 1..Len(items) :
        items[i].checked /\ ~items[i].worktree.IsMerged
    /\ \E i \in 1..Len(items) :
        items[i].checked /\ items[i].worktree.IsMerged

\* C10: the key n in List mode unchecks every item; from every List state
\* the keys a, n leave no item checked, and d after them changes nothing.
C10_DeselectAll ==
    /\ [][ (mode = "List" /\ KeyStep("n")) =>
            \A i \in 1..Len(items') : ~items'[i].checked ]_vars
    /\ [](mode = "List" =>
            LET m1 == updateList(CurModel, "a").m
                m2 == updateList(m1, "n").m
                r3 == updateList(m2, "d")
            IN  /\ selectedCount(m2) = 0
                /\ r3.m = m2
                /\ r3.m.mode = "List"
                /\ r3.calls = <<>>)

\* The key n was processed in List mode over a list with a merged item that
\* the key a selects.
C10_Witness ==
    /\ last.case = "n"
    /\ last.mode = "List"
    /\ mode = "List"
    /\ selectedCount(CurModel) = 0
    /\ selectedCount(SelectAllMerged(CurModel)) > 0

\* The switch selector has been launched.
SelectorLaunched ==
    /\ command = "switch"
    /\ prog # "stopped" \/ last.case # "none" \/ exitErr = "tui error"

\* C11 as stated: in the browser and in the selector the cursor is always an
\* index of the item list.
C11_CursorAlwaysAnIndex ==
    /\ command = "browse" => cursor \in 0..(Len(items) - 1)
    /\ SelectorLaunched => selector.cursor \in 0..(Len(selector.items) - 1)

\* C11, amended: in the browser and in the selector the cursor is an index
\* of the item list whenever the list is not empty, and 0 when it is empty;
\* an up or down key (in the browser: in List mode) moves it by exactly one,
\* and at the first, respectively last, item it changes nothing.
C11_CursorInRange ==
    /\ [](command = "browse" =>
            IF Len(items) = 0 THEN cursor = 0
            ELSE cursor \in 0..(Len(items) - 1))
    /\ [](SelectorLaunched =>
            IF Len(selector.items) = 0 THEN selector.cursor = 0
            ELSE selector.cursor \in 0..(Len(selector.items) - 1))
    /\ [][ /\ \A key \in UpKeys : (mode = "List" /\ KeyStep(key)) =>
                IF cursor = 0 THEN ModelUnchanged
                ELSE cursor' = cursor - 1
           /\ \A key \in DownKeys : (mode = "List" /\ KeyStep(key)) =>
                IF cursor >= Len(items) - 1 THEN ModelUnchanged
                ELSE cursor' = cursor + 1
           /\ \A key \in UpKeys : SelectorKeyStep(key) =>
                IF selector.cursor = 0 THEN selector' = selector
                ELSE selector'.cursor = selector.cursor - 1
           /\ \A key \in DownKeys : SelectorKeyStep(key) =>
                IF selector.cursor >= Len(selector.items) - 1
                THEN selector' = selector
                ELSE selector'.cursor = selector.cursor + 1 ]_vars

\* A down key was processed in the browser's List mode and the cursor is on
\* the last of two items.
C11_Witness ==
    /\ command = "browse"
    /\ last.case = "down"
    /\ last.mode = "List"
    /\ Len(items) = 2
    /\ cursor = 1

\* A down key was processed in the selector and the cursor is on the last of
\* two items.
C11_WitnessSelector ==
    /\ SelectorLaunched
    /\ last.case = "down"
    /\ Len(selector.items) = 2
    /\ selector.cursor = 1

\* runSwitch ran past git.ListWorktrees on a query or on no argument.
SwitchRan ==
    /\ command = "switch"
    /\ switchInitShell = <<>>
    /\ exitErr # "none" \/ prog # "stopped"
    /\ exitErr \notin { "not a git repository", "git worktree list failed" }

\* The short name of a worktree, in lower case.
LowerName(wt) == ToLower(BranchShort(wt))

\* C12: matchWorktrees compares short names without regard to letter case.
\* If a candidate's name equals the query, the result is one candidate, the
\* first such, whatever the other candidates are; otherwise, if any name
\* starts with the query, the result is all candidates whose name does, in
\* order; otherwise it is all candidates whose name contains the query.
C12_MatchTiers ==
    (SwitchRan /\ Len(args) = 1) =>
        LET cands == SwitchCandidates(worktrees)
            q == ToLower(args[1])
            res == matchWorktrees(cands, args[1])
            E == { i \in 1..Len(cands) : LowerName(cands[i]) = q }
            P == { i \in 1..Len(cands) : HasPrefix(LowerName(cands[i]), q) }
            S == { i \in 1..Len(cands) : Contains(LowerName(cands[i]), q) }
        IN  IF E # {}
            THEN res = << cands[CHOOSE i \in E : \A j \in E : i <= j] >>
            ELSE IF P # {}
            THEN res = Pick(cands, P)
            ELSE res = Pick(cands, S)

\* switch a, with worktrees on ab and on a: the second equals the query while
\* the first matches by prefix, and the second's path was printed.
C12_Witness ==
    /\ SwitchRan
    /\ args = << <<"a">> >>
    /\ Len(worktrees) = 2
    /\ BranchShort(worktrees[1]) = <<"a", "b">>
    /\ BranchShort(worktrees[2]) = <<"a">>
    /\ stdout = << Line("path", <<>>, worktrees[2].Path) >>

\* switch b, with worktrees on ab and on cab: no name equals or starts with
\* the query, both contain it, and the selector was launched on both.
C12_WitnessSubstring ==
    /\ SwitchRan
    /\ args = << <<"b">> >>
    /\ Len(worktrees) = 2
    /\ BranchShort(worktrees[1]) = <<"a", "b">>
    /\ BranchShort(worktrees[2]) = <<"c", "a", "b">>
    /\ selector.items = worktrees

\* C13: switch with a query acts on the number of matches.  None: the error
\* "no worktree matching", and nothing printed.  One: that worktree's path
\* printed, without a selector.  Several: the selector is opened on exactly
\* the matches, nothing is printed before it ends, and then only the path of
\* the selection is printed, which only the key enter sets, to the item at
\* the cursor.
C13_SwitchByMatchCount ==
    /\ []((SwitchRan /\ Len(args) = 1 /\ Len(SwitchCandidates(worktrees)) > 0)
            =>
            LET matches == matchWorktrees(SwitchCandidates(worktrees), args[1])
            IN  IF Len(matches) = 0
                THEN /\ exitErr = "no worktree matching"
                     /\ stdout = <<>>
                     /\ ~SelectorLaunched
                ELSE IF Len(matches) = 1
                THEN /\ exitErr = "nil"
                     /\ stdout = << Line("path", <<>>, matches[1].Path) >>
                     /\ ~SelectorLaunched
                ELSE /\ SelectorLaunched
                     /\ selector.items = matches
                     /\ IF exitErr = "nil"
                        THEN /\ selector.selected # <<>>
                             /\ stdout = << Line("path", <<>>,
                                                 selector.selected[1].Path) >>
                        ELSE stdout = <<>>)
    /\ [][ selector'.selected # selector.selected =>
            /\ SelectorKeyStep("enter")
            /\ selector.cursor + 1 \in 1..Len(selector.items)
            /\ selector'.selected = << selector.items[selector.cursor + 1] >>
         ]_vars

\* switch with a query that two worktrees match: the selector ran, the user
\* picked the second match, and its path was printed.
C13_Witness ==
    /\ SwitchRan
    /\ Len(args) = 1
    /\ Len(selector.items) = 2
    /\ selector.selected = << selector.items[2] >>
    /\ exitErr = "nil"
    /\ stdout = << Line("path", <<>>, selector.items[2].Path) >>

\* C14: switch offers in its selector, and prints the path of, only worktrees
\* that are neither bare nor detached, with and without a query; when the
\* repository has no such worktree it fails with an error and prints nothing.
C14_NoBareNoDetached ==
    LET usable == { i \in 1..Len(worktrees) :
                        ~worktrees[i].IsBare /\ ~worktrees[i].IsDetached }
    IN  command = "switch" =>
        /\ \A j \in 1..Len(selector.items) :
            \E i \in usable : selector.items[j] = worktrees[i]
        /\ selector.selected # <<>> =>
            \E i \in usable : selector.selected[1] = worktrees[i]
        /\ \A j \in 1..Len(stdout) : stdout[j].kind = "path" =>
            \E i \in usable : stdout[j].detail = worktrees[i].Path
        /\ (SwitchRan /\ usable = {}) =>
            /\ exitErr = "no worktrees available"
            /\ stdout = <<>>
            /\ ~SelectorLaunched

\* switch without a query in a repository with a detached worktree and one on
\* a branch: the selector ran and the path of the latter was printed.
C14_Witness ==
    /\ SwitchRan
    /\ args = <<>>
    /\ \E i \in 1..Len(worktrees) : worktrees[i].IsDetached
    /\ Len(stdout) = 1
    /\ stdout[1].kind = "path"

\* switch in a repository whose worktrees are all bare or detached failed.
C14_WitnessNone ==
    /\ SwitchRan
    /\ Len(worktrees) = 2
    /\ exitErr = "no worktrees available"

\* C15: once the command has returned, the exit status is not 0 if an
\* operational failure happened: a removal failed and was reported by clean
\* or by the browser, the directory is not a repository, or switch found no
\* match.
C15_FailureExitsNonZero ==
    ( /\ exitErr # "none"
      /\ \/ command = "browse" /\ errors # <<>>
         \/ command = "clean" /\ \E j \in 1..Len(stdout) :
                                    stdout[j].kind = "Failed to remove"
         \/ exitErr = "not a git repository"
         \/ exitErr = "no worktree matching" )
    => ExitCode # 0

\* C16: once the command has returned after a cancellation by the user, the
\* exit status is 0: the browser was quit without a removal, clean's prompt
\* was answered with something other than yes, or the switch selector ended
\* without a selection.
C16_CancelExitsZero ==
    ( /\ exitErr \notin { "none", "panic", "tui error" }
      /\ \/ command = "browse" /\ prog = "stopped" /\ removeCalls = <<>>
         \/ /\ command = "clean"
            /\ Len(candidates) > 0
            /\ ~cleanDryRun
            /\ ~cleanForce
            /\ ~Confirmed(stdin)
         \/ /\ SelectorLaunched
            /\ prog = "stopped"
            /\ selector.done
            /\ selector.selected = <<>> )
    => ExitCode = 0

\* ---------------------------------------------------------- display texts
\* The value the formatter named kind has returned for worktrees[1].
Returned(kind) ==
    /\ command = "format"
    /\ Len(stdout) = 1
    /\ stdout[1].kind = kind

\* C17 as stated: for every record, bare or not, StatusText returns "clean"
\* if and only if the modified and the untracked count are both zero.
C17_CleanIffNoChanges ==
    Returned("StatusText") =>
        ( stdout[1].detail = <<"c", "l", "e", "a", "n">>
          <=> (worktrees[1].Modified = 0 /\ worktrees[1].Untracked = 0) )

\* C17: for a record that is not bare, StatusText returns "clean" if and only
\* if the modified and the untracked count are both zero; for a bare record it
\* returns "bare", whatever the counts.
C17_CleanIffNoChangesUnlessBare ==
    Returned("StatusText") =>
        LET wt == worktrees[1]
            r == stdout[1].detail
        IN  /\ wt.IsBare => r = <<"b", "a", "r", "e">>
            /\ ~wt.IsBare =>
                ( r = <<"c", "l", "e", "a", "n">>
                  <=> (wt.Modified = 0 /\ wt.Untracked = 0) )

\* StatusText has returned "clean" for a record that is not bare.
C17_Witness ==
    /\ Returned("StatusText")
    /\ ~worktrees[1].IsBare
    /\ stdout[1].detail = <<"c", "l", "e", "a", "n">>

\* StatusText has returned for a bare record.
C17_WitnessBare ==
    /\ Returned("StatusText")
    /\ worktrees[1].IsBare

\* StatusText has returned for a record with untracked files only.
C17_WitnessUntracked ==
    /\ Returned("StatusText")
    /\ worktrees[1].Modified = 0
    /\ worktrees[1].Untracked > 0
    /\ stdout[1].detail # <<"c", "l", "e", "a", "n">>

\* The tags contain a sync tag: a piece that starts with an arrow.
HasSyncTag(tags) ==
    \E j \in 1..Len(tags) :
        /\ Len(tags[j].text) > 0
        /\ tags[j].text[1] \in { ArrowDown, ArrowUp }

\* C18: SyncText returns "-" if and only if ahead and behind are both zero;
\* otherwise the behind indicator, a space and the ahead indicator, without
\* the indicator (and the space) of a count that is zero; and the tags of a
\* worktree contain the sync tag exactly when the counts are not both zero.
C18_SyncText ==
    LET wt == worktrees[1]
        a == wt.Ahead
        b == wt.Behind
        r == stdout[1].detail
        behind == << ArrowDown >> \o Itoa(b)
        ahead == << ArrowUp >> \o Itoa(a)
    IN  /\ Returned("SyncText") =>
            /\ r = <<"-">> <=> (a = 0 /\ b = 0)
            /\ (a > 0 /\ b > 0) => r = behind \o <<" ">> \o ahead
            /\ (a = 0 /\ b > 0) => r = behind
            /\ (a > 0 /\ b = 0) => r = ahead
            /\ (a = 3 /\ b = 10) =>
                  r = << ArrowDown, "1", "0", " ", ArrowUp, "3" >>
        /\ (Returned("BuildTags") \/ Returned("buildTags")) =>
            ( HasSyncTag(r) <=> ~(a = 0 /\ b = 0) )

\* SyncText has returned for a worktree that is both ahead and behind.
C18_Witness ==
    /\ Returned("SyncText")
    /\ worktrees[1].Ahead > 0
    /\ worktrees[1].Behind > 0

\* The tags of a worktree that is ahead or behind have been built, and
\* contain the sync tag.
C18_WitnessTag ==
    /\ Returned("BuildTags")
    /\ worktrees[1].Ahead > 0
    /\ HasSyncTag(stdout[1].detail)

\* The tags contain a stale tag.
HasStaleTag(tags) ==
    \E j \in 1..Len(tags) : tags[j].style = "staleStyle"

\* A worktree with no known last commit is not shown with a stale tag and is
\* not a candidate of clean for inactivity.
UnknownHistoryNeverStale ==
    /\ (Returned("BuildTags") \/ Returned("buildTags")) =>
        ( worktrees[1].LastCommit.IsZero => ~HasStaleTag(stdout[1].detail) )
    /\ command = "clean" =>
        \A i \in 1..Len(candidates) :
            candidates[i].worktree.LastCommit.IsZero =>
                \A j \in 1..Len(candidates[i].reason) :
                    candidates[i].reason[j].tag # "inactive"

\* C19 as stated: InactiveDays is the floor of (now - last commit) / 1 day
\* for every set last commit, one later than now included, and 0 when it is
\* unset; a worktree with unknown history gets no stale tag and is not
\* selected as stale by clean.
C19_InactiveDaysIsFloor ==
    /\ Returned("InactiveDays") =>
        LET t == worktrees[1].LastCommit
            r == stdout[1].detail
        IN  IF t.IsZero THEN r = 0
            ELSE /\ r * DaySecs <= Now - t.Unix
                 /\ Now - t.Unix < (r + 1) * DaySecs
    /\ UnknownHistoryNeverStale

\* C19: InactiveDays is (now - last commit) / 1 day with the fraction
\* dropped: the floor when the last commit is not later than now, and minus
\* the floor of (last commit - now) / 1 day when it is later; it is 0 when the
\* last commit is unset; a worktree with unknown history gets no stale tag and
\* is not selected as stale by clean.
C19_InactiveDaysTruncates ==
    /\ Returned("InactiveDays") =>
        LET t == worktrees[1].LastCommit
            r == stdout[1].detail
            d == Now - t.Unix
        IN  IF t.IsZero THEN r = 0
            ELSE IF d >= 0
            THEN r * DaySecs <= d /\ d < (r + 1) * DaySecs
            ELSE (-r) * DaySecs <= -d /\ -d < (1 - r) * DaySecs
    /\ UnknownHistoryNeverStale

\* InactiveDays has returned for a last commit more than a day later than
\* now.
C19_Witness ==
    /\ Returned("InactiveDays")
    /\ ~worktrees[1].LastCommit.IsZero
    /\ worktrees[1].LastCommit.Unix > Now + DaySecs
    /\ stdout[1].detail = -1

\* InactiveDays has returned 0 for an unset last commit.
C19_WitnessUnset ==
    /\ Returned("InactiveDays")
    /\ worktrees[1].LastCommit.IsZero

\* clean has run with a stale threshold over a worktree with unknown history
\* that it does not skip.
C19_WitnessClean ==
    /\ command = "clean"
    /\ exitErr = "nil"
    /\ cleanStaleDays > 0
    /\ \E i \in 1..Len(worktrees) :
        /\ worktrees[i].LastCommit.IsZero
        /\ ~worktrees[i].IsBare
        /\ ~worktrees[i].IsCurrent

\* clean has computed its candidates from worktrees.
CleanRan == command = "clean" /\ exitErr = "nil"

\* The worktree is one the candidate filter considers.
CleanConsiders(wt) ==
    /\ ~wt.IsBare
    /\ ~wt.IsCurrent
    /\ BranchShort(wt) # DefaultBranchName

\* clean has made the worktree a candidate for inactivity.
StaleCandidate(wt) ==
    \E i \in 1..Len(candidates) :
        /\ candidates[i].worktree = wt
        /\ \E j \in 1..Len(candidates[i].reason) :
            candidates[i].reason[j].tag = "inactive"

\* The days of inactivity of a worktree of the clean runs, from its last
\* commit.
DaysInactive(wt) ==
    IF wt.LastCommit.IsZero THEN 0
    ELSE (Now - wt.LastCommit.Unix) \div DaySecs

\* C20 as stated: with threshold T from --stale N, or from cleanup.stale_days
\* when no flag is given, clean makes a worktree it considers a stale
\* candidate exactly when its days of inactivity are more than T.
C20_StaleIffExceeds ==
    ( /\ CleanRan
      /\ cleanStaleDays > 0 \/ ~cleanMerged )
    => LET T == IF cleanStaleDays > 0 THEN cleanStaleDays ELSE cfg.StaleDays
       IN  \A i \in 1..Len(worktrees) :
            CleanConsiders(worktrees[i]) =>
                ( StaleCandidate(worktrees[i])
                  <=> DaysInactive(worktrees[i]) > T )

\* C20: with threshold T from --stale N when N > 0, or from
\* cleanup.stale_days when neither --stale nor --merged is given, clean makes
\* a worktree it considers a stale candidate exactly when T > 0 and its days
\* of inactivity are at least T; with --merged alone no worktree is a stale
\* candidate.
C20_StaleIffAtLeast ==
    CleanRan =>
        \A i \in 1..Len(worktrees) :
            CleanConsiders(worktrees[i]) =>
                LET T == IF cleanStaleDays > 0 THEN cleanStaleDays
                         ELSE cfg.StaleDays
                    applies == cleanStaleDays > 0 \/ ~cleanMerged
                IN  StaleCandidate(worktrees[i])
                    <=> ( /\ applies
                          /\ T > 0
                          /\ DaysInactive(worktrees[i]) >= T )

\* clean has run with --stale N over a worktree that has been inactive for
\* exactly N days, and has made it a stale candidate.
C20_Witness ==
    /\ CleanRan
    /\ cleanStaleDays > 0
    /\ \E i \in 1..Len(worktrees) :
        /\ CleanConsiders(worktrees[i])
        /\ ~worktrees[i].LastCommit.IsZero
        /\ DaysInactive(worktrees[i]) = cleanStaleDays
        /\ StaleCandidate(worktrees[i])

\* clean has run with --stale N over a worktree with a last commit less than
\* N days ago, and has not made it a stale candidate.
C20_WitnessFresh ==
    /\ CleanRan
    /\ cleanStaleDays > 0
    /\ \E i \in 1..Len(worktrees) :
        /\ CleanConsiders(worktrees[i])
        /\ ~worktrees[i].LastCommit.IsZero
        /\ DaysInactive(worktrees[i]) < cleanStaleDays
        /\ ~StaleCandidate(worktrees[i])

\* clean has run without flags and with cleanup.stale_days = 0 over a
\* worktree that has been inactive for days, and has not made it a stale
\* candidate.
C20_WitnessZeroThreshold ==
    /\ CleanRan
    /\ cleanStaleDays = 0
    /\ ~cleanMerged
    /\ cfg.StaleDays = 0
    /\ \E i \in 1..Len(worktrees) :
        /\ CleanConsiders(worktrees[i])
        /\ DaysInactive(worktrees[i]) > 0
        /\ ~StaleCandidate(worktrees[i])

\* C21: whatever the flags and the configuration, clean never makes a
\* candidate of, lists or removes a worktree that is bare, current or on the
\* default branch.
C21_CleanNeverTouchesProtected ==
    CleanRan =>
        \A i \in 1..Len(worktrees) :
            ~CleanConsiders(worktrees[i]) =>
                /\ \A j \in 1..Len(candidates) :
                    candidates[j].worktree.Path # worktrees[i].Path
                /\ \A j \in 1..Len(stdout) :
                    stdout[j].kind \in { "candidate", "Removed",
                                         "Failed to remove" }
                        => stdout[j].branch # BranchShort(worktrees[i])
                /\ \A j \in 1..Len(removeCalls) :
                    removeCalls[j].path # worktrees[i].Path

\* clean has removed a worktree in a run whose list has a current worktree
\* that is merged and inactive for at least the threshold.
C21_Witness ==
    /\ CleanRan
    /\ removeCalls # <<>>
    /\ cleanStaleDays > 0
    /\ \E i \in 1..Len(worktrees) :
        /\ worktrees[i].IsCurrent
        /\ ~worktrees[i].IsBare
        /\ BranchShort(worktrees[i]) # DefaultBranchName
        /\ worktrees[i].IsMerged
        /\ DaysInactive(worktrees[i]) >= cleanStaleDays

\* clean has removed a worktree in a run whose list has a worktree on the
\* default branch that is inactive for at least the threshold.
C21_WitnessDefaultBranch ==
    /\ CleanRan
    /\ removeCalls # <<>>
    /\ cleanStaleDays > 0
    /\ \E i \in 1..Len(worktrees) :
        /\ ~worktrees[i].IsCurrent
        /\ BranchShort(worktrees[i]) = DefaultBranchName
        /\ DaysInactive(worktrees[i]) >= cleanStaleDays

\* C22 as stated: a dry run of clean calls neither RemoveWorktree nor
\* PruneWorktrees, whatever the candidates (none included) and the
\* configuration.
C22_DryRunChangesNothing ==
    (CleanRan /\ cleanDryRun) => (removeCalls = <<>> /\ pruneCalls = <<>>)

\* The texts of the tags a record is to be shown with, in display order.
TagTexts(wt) ==
    LET days == DaysInactive(wt)
        all == << [ on |-> wt.IsCurrent,
                    text |-> <<"c", "u", "r", "r", "e", "n", "t">> ],
                  [ on |-> ~(wt.Modified = 0 /\ wt.Untracked = 0),
                    text |-> StatusText(wt) ],
                  [ on |-> wt.IsMerged,
                    text |-> <<"m", "e", "r", "g", "e", "d">> ],
                  [ on |-> ~(wt.Ahead = 0 /\ wt.Behind = 0),
                    text |-> SyncText(wt) ],
                  [ on |-> days > 30,
                    text |-> Itoa(days)
                             \o <<"d", " ", "s", "t", "a", "l", "e">> ] >>
        shown == SelectSeq(all, LAMBDA t : t.on)
    IN  [ k \in 1..Len(shown) |-> shown[k].text ]

\* The pieces are the texts between brackets, separated by ", "; no pieces
\* for no texts.
IsTagString(pieces, texts) ==
    IF Len(texts) = 0 THEN pieces = <<>>
    ELSE /\ Len(pieces) = 2 * Len(texts) + 1
         /\ pieces[1].text = <<"[">>
         /\ pieces[Len(pieces)].text = <<"]">>
         /\ \A k \in 1..Len(texts) : pieces[2 * k].text = texts[k]
         /\ \A k \in 1..(Len(texts) - 1) :
                pieces[2 * k + 1].text = <<",", " ">>

\* C23: BuildTags returns the tags in the order current, dirty status (only
\* if not clean), merged (only if merged), sync text (only if not "-"),
\* "<n>d stale" (only if inactive for more than 30 days), and the empty string
\* for a record with none of them.
C23_TagOrder ==
    Returned("BuildTags") =>
        IsTagString(stdout[1].detail, TagTexts(worktrees[1]))

\* BuildTags has returned all five tags for one record.
C23_Witness ==
    /\ Returned("BuildTags")
    /\ Len(TagTexts(worktrees[1])) = 5
    /\ Len(stdout[1].detail) = 11

\* BuildTags has returned the empty string.
C23_WitnessNone ==
    /\ Returned("BuildTags")
    /\ ~worktrees[1].IsBare
    /\ stdout[1].detail = <<>>

\* The sync column of a table row contains the stale note.
HasStaleNote(pieces) ==
    \E j \in 1..Len(pieces) :
        /\ Len(pieces[j].text) > 8
        /\ SubSeq(pieces[j].text, Len(pieces[j].text) - 7,
                  Len(pieces[j].text))
                = <<"d", " ", "s", "t", "a", "l", "e", ")">>

\* C29: for every record and every value of cleanup.stale_days, the
\* selector's BuildTags and the browser's buildTags return the same string,
\* and the two of them and the ls table mark the worktree stale exactly when
\* it has been inactive for more than 30 days.
C29_TagsSameInAllViews ==
    LET wt == worktrees[1]
        r == stdout[1].detail
    IN  /\ Returned("BuildTags") =>
            /\ r = buildTags(wt)
            /\ HasStaleTag(r) <=> DaysInactive(wt) > 30
        /\ Returned("buildTags") =>
            /\ r = BuildTags(wt)
            /\ HasStaleTag(r) <=> DaysInactive(wt) > 30
        /\ Returned("TableSync") =>
            ( HasStaleNote(r) <=> DaysInactive(wt) > 30 )

\* The browser has built the tags of a worktree inactive for 30 days under
\* cleanup.stale_days = 2, without a stale tag.
C29_Witness ==
    /\ Returned("buildTags")
    /\ cfg.StaleDays = 2
    /\ DaysInactive(worktrees[1]) = 30
    /\ ~HasStaleTag(stdout[1].detail)

\* The table row of a worktree inactive for 31 days has been printed under
\* cleanup.stale_days = 0, with the stale note.
C29_WitnessTable ==
    /\ Returned("TableSync")
    /\ cfg.StaleDays = 0
    /\ DaysInactive(worktrees[1]) = 31
    /\ HasStaleNote(stdout[1].detail)

\* The browser is in List mode with the cursor on an item that is not the
\* current worktree.
CursorOnOther ==
    /\ command = "browse"
    /\ mode = "List"
    /\ cursor + 1 \in 1..Len(items)
    /\ ~items[cursor + 1].worktree.IsCurrent

\* C27: a toggle key (space or x) processed in List mode with the cursor on
\* an item that is not current flips that item's checked flag and changes no
\* other item, nor the cursor, nor the mode; a second toggle on the same item
\* gives back the selection there was before the first.
C27_ToggleFlipsOnlyCursorItem ==
    /\ [][ \A key \in ToggleKeys :
            (CursorOnOther /\ KeyStep(key)) =>
                /\ items' = [items EXCEPT ![cursor + 1].checked = ~@]
                /\ cursor' = cursor
                /\ mode' = mode
                /\ confirmCursor' = confirmCursor
                /\ removed' = removed
                /\ errors' = errors
                /\ removeCalls' = removeCalls ]_vars
    /\ [](CursorOnOther =>
            \A k1 \in ToggleKeys : \A k2 \in ToggleKeys :
                LET once == UpdateKey(CurModel, k1, <<>>).m
                    twice == UpdateKey(once, k2, <<>>).m
                IN  /\ once.items # items
                    /\ twice.items = items
                    /\ twice.cursor = cursor)

\* A toggle key was processed in List mode and has checked the cursor's item
\* in a list of more than one item.
C27_Witness ==
    /\ last.case = " "
    /\ last.mode = "List"
    /\ CursorOnOther
    /\ Len(items) > 1
    /\ items[cursor + 1].checked

\* A toggle key was processed in List mode and has unchecked the cursor's
\* item while another item stays checked.
C27_WitnessUncheck ==
    /\ last.case = " "
    /\ last.mode = "List"
    /\ CursorOnOther
    /\ ~items[cursor + 1].checked
    /\ \E i \in 1..Len(items) : items[i].checked

\* The number of failed removals among the outcomes res.
RECURSIVE FailedRemovals(_, _)
FailedRemovals(res, n) ==
    IF n = 0 THEN 0
    ELSE FailedRemovals(res, n - 1)
         + (IF n \in DOMAIN res /\ res[n] # NoErr THEN 1 ELSE 0)

\* C26: in the browser git.PruneWorktrees is called once per executed removal
\* batch, after the batch's last git.RemoveWorktree call and in the step that
\* enters Done; whether the prune fails or not, Done is entered and errors
\* holds the failed removals only.
C26_PruneOncePerBatch ==
    /\ [][ command = "browse" =>
            /\ removeCalls' # removeCalls =>
                /\ mode' = "Done"
                /\ Len(pruneCalls') = Len(pruneCalls) + 1
            /\ pruneCalls' # pruneCalls =>
                /\ mode = "Confirm"
                /\ mode' = "Done"
                /\ pruneCalls = <<>>
                /\ Len(pruneCalls') = 1
                /\ pruneCalls'[1].after = Len(removeCalls')
                /\ Len(removeCalls') > 0
            /\ (mode # "Done" /\ mode' = "Done") => Len(pruneCalls') = 1 ]_vars
    /\ [](command = "browse" /\ mode = "Confirm" =>
            \A res \in Outcomes(CurModel) :
            \A key \in IF confirmCursor = 1 THEN { "y", "enter" }
                                              ELSE { "y" } :
                LET r == UpdateKey(CurModel, key, res)
                IN  /\ r.m.mode = "Done"
                    /\ r.prunes = << [ after |-> Len(r.calls) ] >>
                    /\ Len(r.m.errors)
                        = Len(errors) + FailedRemovals(res, Len(items)))

\* The browser is in Done after a batch whose removals all succeeded, with
\* the one prune call made after them and nothing in errors.
C26_Witness ==
    /\ command = "browse"
    /\ mode = "Done"
    /\ Len(removeCalls) = 2
    /\ pruneCalls = << [ after |-> 2 ] >>
    /\ errors = <<>>

\* The records the session was started with, one per item.
ItemWorktrees == [ i \in 1..Len(items) |-> items[i].worktree ]

\* C28: every git.RemoveWorktree call, in the browser and in clean, passes as
\* deleteBranch the IsMerged value of the record of the worktree it removes,
\* and that record is the one the session was given at its start: no step
\* changes the record of an item, and clean's candidates carry the records of
\* the enriched list.
C28_DeleteBranchFromSnapshot ==
    /\ [](command = "browse" =>
            \A j \in 1..Len(removeCalls) :
                \E i \in 1..Len(items) :
                    /\ items[i].worktree.Path = removeCalls[j].path
                    /\ removeCalls[j].deleteBranch
                        = items[i].worktree.IsMerged)
    /\ [](command = "clean" =>
            /\ \A j \in 1..Len(candidates) :
                \E i \in 1..Len(worktrees) :
                    candidates[j].worktree = worktrees[i]
            /\ \A j \in 1..Len(removeCalls) :
                \E i \in 1..Len(worktrees) :
                    /\ worktrees[i].Path = removeCalls[j].path
                    /\ removeCalls[j].deleteBranch = worktrees[i].IsMerged)
    /\ [][ command = "browse" => ItemWorktrees' = ItemWorktrees ]_vars

\* The browser has removed a merged and an unmerged worktree in one batch.
C28_Witness ==
    /\ command = "browse"
    /\ mode = "Done"
    /\ Len(removeCalls) = 2
    /\ removeCalls[1].deleteBranch # removeCalls[2].deleteBranch

\* clean has removed a merged and an unmerged (inactive) worktree in one run.
C28_WitnessClean ==
    /\ command = "clean"
    /\ Len(removeCalls) = 2
    /\ removeCalls[1].deleteBranch # removeCalls[2].deleteBranch

\* clean has made the worktree a candidate.
Candidate(wt) ==
    \E j \in 1..Len(candidates) : candidates[j].worktree = wt

\* C30 as stated, with stale under T meaning inactive for more than T days:
\* a worktree clean considers is a candidate iff it is merged (--merged
\* alone), iff it is stale under N (--stale N alone), iff it is merged or
\* stale under N (both), iff it is merged or stale under cleanup.stale_days
\* (neither flag).
C30_SelectsByCriteria ==
    CleanRan =>
        \A i \in 1..Len(worktrees) :
            LET wt == worktrees[i]
                days == DaysInactive(wt)
            IN  CleanConsiders(wt) =>
                ( Candidate(wt) <=>
                    IF cleanMerged /\ cleanStaleDays = 0 THEN wt.IsMerged
                    ELSE IF ~cleanMerged /\ cleanStaleDays > 0
                        THEN days > cleanStaleDays
                    ELSE IF cleanMerged /\ cleanStaleDays > 0
                        THEN wt.IsMerged \/ days > cleanStaleDays
                    ELSE wt.IsMerged \/ days > cfg.StaleDays )

\* C30: the same, with stale under T meaning that T > 0 and the worktree has
\* been inactive for at least T days.
C30_SelectsByCriteriaAtLeast ==
    CleanRan =>
        \A i \in 1..Len(worktrees) :
            LET wt == worktrees[i]
                days == DaysInactive(wt)
                T == cfg.StaleDays
            IN  CleanConsiders(wt) =>
                ( Candidate(wt) <=>
                    IF cleanMerged /\ cleanStaleDays = 0 THEN wt.IsMerged
                    ELSE IF ~cleanMerged /\ cleanStaleDays > 0
                        THEN days >= cleanStaleDays
                    ELSE IF cleanMerged /\ cleanStaleDays > 0
                        THEN wt.IsMerged \/ days >= cleanStaleDays
                    ELSE wt.IsMerged \/ (T > 0 /\ days >= T) )

\* clean has run with --merged alone and has kept an unmerged worktree that
\* has been inactive for at least cleanup.stale_days.
C30_Witness ==
    /\ CleanRan
    /\ cleanMerged
    /\ cleanStaleDays = 0
    /\ cfg.StaleDays > 0
    /\ \E i \in 1..Len(worktrees) :
        /\ CleanConsiders(worktrees[i])
        /\ ~worktrees[i].IsMerged
        /\ DaysInactive(worktrees[i]) >= cfg.StaleDays
        /\ ~Candidate(worktrees[i])
    /\ \E i \in 1..Len(worktrees) : Candidate(worktrees[i])

\* clean has run with --stale N alone and has kept a merged worktree that is
\* not inactive for N days.
C30_WitnessStaleOnly ==
    /\ CleanRan
    /\ ~cleanMerged
    /\ cleanStaleDays > 0
    /\ \E i \in 1..Len(worktrees) :
        /\ CleanConsiders(worktrees[i])
        /\ worktrees[i].IsMerged
        /\ DaysInactive(worktrees[i]) < cleanStaleDays
        /\ ~Candidate(worktrees[i])

\* ------------------------------------------------------------- package git
\* A function of package git has been called; the first line of the trace
\* names it.
GitCalled(fn) ==
    /\ command = "git"
    /\ Len(stdout) > 0
    /\ stdout[1].kind = fn

\* C24: EnrichWorktree leaves a bare record as it is, whatever the repository
\* holds: the status counts, ahead, behind, IsMerged and LastCommit keep their
\* zero values and every other field its value.
C24_BareNotEnriched ==
    GitCalled("EnrichWorktree") =>
        LET call == stdout[1].detail
            after == worktrees[call.index]
        IN  call.before.IsBare =>
                /\ after = call.before
                /\ after.Modified = 0
                /\ after.Untracked = 0
                /\ after.Ahead = 0
                /\ after.Behind = 0
                /\ ~after.IsMerged
                /\ after.LastCommit.IsZero

\* EnrichWorktree has been called on a bare record in a repository whose
\* directory exists and where the git commands have something to report.
C24_Witness ==
    /\ GitCalled("EnrichWorktree")
    /\ stdout[1].detail.before.IsBare
    /\ stdout[1].detail.facts.exists
    /\ stdout[1].detail.facts.modified > 0
    /\ stdout[1].detail.facts.upstream
    /\ ~stdout[1].detail.facts.lastCommit.IsZero

\* EnrichWorktree has been called on a record that is not bare and has
\* changed it.
C24_WitnessEnriched ==
    /\ GitCalled("EnrichWorktree")
    /\ ~stdout[1].detail.before.IsBare
    /\ worktrees[stdout[1].detail.index] # stdout[1].detail.before

\* The positions of the trace where the worktree removal succeeded.
RemovalSucceededAt ==
    { j \in 1..Len(stdout) :
        /\ stdout[j].kind \in { "git worktree remove",
                                "git worktree remove --force" }
        /\ stdout[j].detail = NoErr }

\* The positions of the trace where the branch deletion was run.
BranchDeletedAt ==
    { j \in 1..Len(stdout) : stdout[j].kind = "git branch -d" }

\* C25: RemoveWorktree with deleteBranch = false never runs the branch
\* deletion; with deleteBranch = true it runs it only after a removal of the
\* worktree that succeeded, and returns no error even when the deletion
\* fails; when the removal fails (forced removal included) it returns the
\* error and runs no branch deletion.
C25_BranchDeletedOnlyAfterRemoval ==
    GitCalled("RemoveWorktree") =>
        LET call == stdout[1].detail
            ret == stdout[Len(stdout)]
        IN  /\ ret.kind = "return"
            /\ ~call.deleteBranch => BranchDeletedAt = {}
            /\ \A k \in BranchDeletedAt :
                /\ call.deleteBranch
                /\ \E j \in RemovalSucceededAt : j < k
            /\ RemovalSucceededAt # {} => ret.detail = NoErr
            /\ RemovalSucceededAt = {} =>
                /\ ret.detail # NoErr
                /\ BranchDeletedAt = {}

\* RemoveWorktree has returned no error after a forced removal that
\* succeeded and a branch deletion that failed.
C25_Witness ==
    /\ GitCalled("RemoveWorktree")
    /\ stdout[1].detail.deleteBranch
    /\ \E j \in RemovalSucceededAt : stdout[j].kind = "git worktree remove --force"
    /\ \E k \in BranchDeletedAt : stdout[k].detail # NoErr
    /\ stdout[Len(stdout)].detail = NoErr

\* RemoveWorktree has returned the error of a removal that failed, with
\* deleteBranch = true and the worktree's branch known.
C25_WitnessFailure ==
    /\ GitCalled("RemoveWorktree")
    /\ stdout[1].detail.deleteBranch
    /\ stdout[2].detail = NoErr
    /\ \E i \in 1..Len(worktrees) :
        /\ worktrees[i].Path = stdout[1].detail.path
        /\ BranchShort(worktrees[i]) # <<>>
    /\ RemovalSucceededAt = {}
    /\ stdout[Len(stdout)].detail # NoErr

\* ------------------------------------------------------ clean: threshold 0
\* Every candidate of clean is one for the merged reason only.
MergedReasonOnly ==
    \A j \in 1..Len(candidates) :
        candidates[j].reason = << Reason("merged", 0) >>

\* C31 as stated: when cleanup.stale_days = 0 and --stale is not given, or
\* when --stale is 0 (the value the flag has when it is not given), every
\* candidate of clean is one for the merged reason only.
C31_ZeroThresholdNoStale ==
    ( /\ CleanRan
      /\ \/ cfg.StaleDays = 0 /\ cleanStaleDays = 0
         \/ cleanStaleDays = 0 )
    => MergedReasonOnly

\* C31: when --stale is 0 or not given, and cleanup.stale_days = 0 or
\* --merged is given, every candidate of clean is one for the merged reason
\* only.
C31_ZeroThresholdNoStaleUnlessConfigured ==
    ( /\ CleanRan
      /\ cleanStaleDays = 0
      /\ cfg.StaleDays = 0 \/ cleanMerged )
    => MergedReasonOnly

\* clean has run without flags and with cleanup.stale_days = 0, and has made
\* a candidate of a merged worktree that has been inactive for days.
C31_Witness ==
    /\ CleanRan
    /\ cleanStaleDays = 0
    /\ ~cleanMerged
    /\ cfg.StaleDays = 0
    /\ \E j \in 1..Len(candidates) :
        /\ DaysInactive(candidates[j].worktree) > 0
        /\ candidates[j].reason = << Reason("merged", 0) >>

\* clean has run with --merged and --stale 0 while cleanup.stale_days is
\* positive, over a merged worktree and an unmerged one, both inactive for
\* cleanup.stale_days: only the merged one is a candidate.
C31_WitnessMergedFlag ==
    /\ CleanRan
    /\ cleanStaleDays = 0
    /\ cleanMerged
    /\ cfg.StaleDays > 0
    /\ Len(candidates) = 1
    /\ DaysInactive(candidates[1].worktree) >= cfg.StaleDays
    /\ \E i \in 1..Len(worktrees) :
        /\ CleanConsiders(worktrees[i])
        /\ ~worktrees[i].IsMerged
        /\ DaysInactive(worktrees[i]) >= cfg.StaleDays

\* ------------------------------------------------- selector: the outcome
\* The item under the selector's cursor, as the value of `selected`; none
\* when the list is empty.
ItemAtCursor ==
    IF Len(selector.items) = 0 THEN <<>>
    ELSE << selector.items[selector.cursor + 1] >>

\* C32: in a selector session that is not done, enter finishes the session
\* with selected = the item at the cursor (nil on an empty list), and a
\* cancel key finishes it with selected = nil.
C32_SelectorOutcome ==
    [][ ~selector.done =>
          /\ SelectorKeyStep("enter") =>
                /\ selector'.done
                /\ cmd' = "Quit"
                /\ selector'.selected = ItemAtCursor
                /\ \A i \in 1..Len(selector'.selected) :
                    \E j \in 1..Len(selector.items) :
                        selector'.selected[i] = selector.items[j]
          /\ (\E key \in CancelKeys : SelectorKeyStep(key)) =>
                /\ selector'.done
                /\ cmd' = "Quit"
                /\ selector'.selected = <<>> ]_vars

\* Enter was processed on the second item: the session is done with that
\* item selected.
C32_Witness ==
    /\ command \in SelectorCommands
    /\ last.case = "enter"
    /\ last.mode = "Selector"
    /\ selector.done
    /\ selector.cursor = 1
    /\ selector.selected = << selector.items[2] >>

\* Enter was processed on the empty list: the session is done with nothing
\* selected.
C32_WitnessEmpty ==
    /\ command \in SelectorCommands
    /\ last.case = "enter"
    /\ last.mode = "Selector"
    /\ selector.done
    /\ selector.items = <<>>
    /\ selector.selected = <<>>

\* A cancel key was processed after the cursor had moved: the session is done
\* with nothing selected.
C32_WitnessCancel ==
    /\ command \in SelectorCommands
    /\ last.case = "q"
    /\ last.mode = "Selector"
    /\ selector.done
    /\ selector.cursor = 1
    /\ selector.selected = <<>>

\* ------------------------------------------------- matchWorktrees: result
\* matchWorktrees has been called on worktrees with the query args[1]; the
\* result is in the trace.
MatchCalled ==
    /\ command = "match"
    /\ Len(stdout) = 1
    /\ stdout[1].kind = "matchWorktrees"

\* The short name of the candidate contains the query, letter case aside.
NameContains(wt, query) ==
    LET name == BranchShort(wt)
    IN  \E k \in 0..(Len(name) - Len(query)) :
            \A j \in 1..Len(query) :
                LowerChar(name[k + j]) = LowerChar(query[j])

\* res is a subsequence of seq: its elements are those of seq at strictly
\* increasing positions.
IsSubsequence(res, seq) ==
    \E f \in [ 1..Len(res) -> 1..Len(seq) ] :
        /\ \A i \in 1..Len(res) : res[i] = seq[f[i]]
        /\ \A i, j \in 1..Len(res) : i < j => f[i] < f[j]

\* C33: the result of matchWorktrees is a duplicate-free subsequence of the
\* candidates, every returned candidate's short name contains the query
\* letter case aside, the result is empty iff no candidate's short name
\* contains the query, and the empty query returns every candidate unless
\* some candidate's short name is empty.
C33_MatchResult ==
    MatchCalled =>
        LET query == args[1]
            res == stdout[1].detail
        IN  /\ IsSubsequence(res, worktrees)
            /\ \A i, j \in 1..Len(res) : i # j => res[i] # res[j]
            /\ \A i \in 1..Len(res) : NameContains(res[i], query)
            /\ res = <<>> <=>
                    \A i \in 1..Len(worktrees) :
                        ~NameContains(worktrees[i], query)
            /\ query = <<>> =>
                    \/ res = worktrees
                    \/ \E i \in 1..Len(worktrees) :
                            BranchShort(worktrees[i]) = <<>>

\* The query b on worktrees ab and cab: no name equals or starts with the
\* query, and both are returned, in order.
C33_Witness ==
    /\ MatchCalled
    /\ args = << <<"b">> >>
    /\ Len(worktrees) = 2
    /\ BranchShort(worktrees[1]) = <<"a", "b">>
    /\ BranchShort(worktrees[2]) = <<"c", "a", "b">>
    /\ stdout[1].detail = worktrees

\* The empty query on a list whose second candidate has an empty short name:
\* that candidate alone is returned.
C33_WitnessEmptyName ==
    /\ MatchCalled
    /\ args = << <<>> >>
    /\ Len(worktrees) = 2
    /\ BranchShort(worktrees[1]) # <<>>
    /\ BranchShort(worktrees[2]) = <<>>
    /\ stdout[1].detail = << worktrees[2] >>

\* The empty query on two named candidates returns both.
C33_WitnessEmptyQuery ==
    /\ MatchCalled
    /\ args = << <<>> >>
    /\ Len(worktrees) = 2
    /\ \A i \in 1..2 : BranchShort(worktrees[i]) # <<>>
    /\ stdout[1].detail = worktrees

\* The query z, which no name contains, on two candidates: none is returned.
C33_WitnessNoMatch ==
    /\ MatchCalled
    /\ args = << <<"z">> >>
    /\ Len(worktrees) = 2
    /\ stdout[1].detail = <<>>

\* ------------------------------------------------ browser: Confirm mode
\* The git.RemoveWorktree calls one batch makes for the checked items.
BatchCalls ==
    [ j \in 1..Len(CheckedItems) |->
        [ path |-> CheckedItems[j].worktree.Path,
          deleteBranch |-> CheckedItems[j].worktree.IsMerged ] ]

\* C34: in Confirm mode at least one item is checked; no step taken in
\* Confirm mode, a key in particular, changes a checked flag or the list
\* cursor; a removal batch starts from Confirm mode and calls
\* git.RemoveWorktree for exactly the checked items, one at least.
C34_ConfirmKeepsSelection ==
    /\ [](mode = "Confirm" => Len(CheckedItems) > 0)
    /\ [][ mode = "Confirm" =>
            /\ Len(items') = Len(items)
            /\ \A i \in 1..Len(items) : items'[i].checked = items[i].checked
            /\ cursor' = cursor ]_vars
    /\ [][ (removeCalls' # removeCalls \/ pruneCalls' # pruneCalls) =>
            /\ mode = "Confirm"
            /\ Len(CheckedItems) > 0
            /\ removeCalls' = removeCalls \o BatchCalls ]_vars

\* A key was processed in Confirm mode without leaving it, on a list whose
\* cursor is not at the top and that has a checked and an unchecked item.
C34_Witness ==
    /\ command = "browse"
    /\ last.mode = "Confirm"
    /\ last.case = "left"
    /\ mode = "Confirm"
    /\ cursor > 0
    /\ Len(CheckedItems) = 1
    /\ Len(items) = 2

\* A batch ran from Confirm over a list with a checked and an unchecked item:
\* one removal was attempted.
C34_WitnessBatch ==
    /\ command = "browse"
    /\ last.mode = "Confirm"
    /\ mode = "Done"
    /\ Len(items) = 2
    /\ Len(CheckedItems) = 1
    /\ Len(removeCalls) = 1

\* ------------------------------------------------ browser: faults
\* C35: no key event processed in List mode faults: the browser's Update
\* never indexes the list at a position it does not have.
C35_NoFaultInListMode ==
    [][ (command = "browse" /\ mode = "List" /\ KeyMsg) =>
            prog' # "panicked" ]_vars

\* ------------------------------------------------ browser: cancel is final
\* A cancel key has been processed in List mode and the program has not acted
\* on the quit command yet: only updateList's cancel case returns tea.Quit
\* outside Done mode.
QuitIssuedFromList ==
    /\ command = "browse"
    /\ prog = "quitting"
    /\ mode \in { "List", "Confirm" }

\* C36: once a cancel key has been processed in List mode, no later step of
\* the session checks an item, enters Confirm or calls git.RemoveWorktree.
C36_CancelIsFinal ==
    [][ QuitIssuedFromList =>
            /\ \A i \in 1..Len(items) :
                (i <= Len(items') /\ items'[i].checked) => items[i].checked
            /\ mode = "List" => mode' # "Confirm"
            /\ removeCalls' = removeCalls ]_vars

\* ------------------------------------------------ selector: decided once
\* C37: once the selector session is done, no later step changes selected.
C37_SelectedDecidedOnce ==
    [][ (command \in SelectorCommands /\ selector.done) =>
            selector'.selected = selector.selected ]_vars

\* ------------------------------------------------ ListWorktrees: current
\* C38: ListWorktrees marks at most one record as current, whatever the
\* layout of the worktree paths and the directory it is called from.
C38_AtMostOneCurrent ==
    command = "list" =>
        Cardinality({ i \in 1..Len(worktrees) : worktrees[i].IsCurrent }) <= 1

\* ------------------------------------------------ EnrichWorktree, twice
\* The fields EnrichWorktree populates.
Enrichment(w) ==
    << w.Modified, w.Untracked, w.Ahead, w.Behind, w.IsMerged, w.LastCommit >>

\* C39: a second call of EnrichWorktree on an enriched record, with the
\* repository unchanged, leaves the populated fields as the first call set
\* them.
C39_EnrichIdempotent ==
    ( /\ GitCalled("EnrichWorktree")
      /\ Len(stdout) = 2 )
    => Enrichment(worktrees[stdout[2].detail.index])
            = Enrichment(stdout[2].detail.before)

\* ------------------------------------------------ IsMerged and the default
\* The worktree has no branch (detached), or is on the default branch.
DetachedOrDefault(w) ==
    BranchShort(w) = <<>> \/ BranchShort(w) = DefaultBranchName

\* C40: EnrichWorktree never sets IsMerged on a record without a branch or on
\* the default branch; in the browser the key a never checks the item on the
\* default branch, and no git.RemoveWorktree call for it asks for its branch
\* to be deleted.
C40_DefaultBranchNeverMerged ==
    /\ [](GitCalled("EnrichWorktree") =>
            \A i \in 1..Len(worktrees) :
                DetachedOrDefault(worktrees[i]) => ~worktrees[i].IsMerged)
    /\ [][ (command = "browse" /\ mode = "List" /\ KeyStep("a")) =>
            \A i \in 1..Len(items) :
                BranchShort(items[i].worktree) = DefaultBranchName =>
                    items'[i].checked = items[i].checked ]_vars
    /\ [](command = "browse" =>
            \A j \in 1..Len(removeCalls) : \A i \in 1..Len(items) :
                ( /\ items[i].worktree.Path = removeCalls[j].path
                  /\ BranchShort(items[i].worktree) = DefaultBranchName )
                => ~removeCalls[j].deleteBranch)

\* EnrichWorktree has been called on the record on the default branch, in a
\* repository whose `git branch --merged` lists the default branch, and has
\* changed the record.
C40_Witness ==
    /\ GitCalled("EnrichWorktree")
    /\ BranchShort(stdout[1].detail.before) = DefaultBranchName
    /\ DefaultBranchName \in stdout[1].detail.facts.merged
    /\ worktrees[stdout[1].detail.index] # stdout[1].detail.before

\* EnrichWorktree has been called on a detached record and has changed it.
C40_WitnessDetached ==
    /\ GitCalled("EnrichWorktree")
    /\ stdout[1].detail.before.IsDetached
    /\ stdout[1].detail.facts.merged # {}
    /\ worktrees[stdout[1].detail.index] # stdout[1].detail.before

\* In the browser the key a has checked a merged item and left the item on
\* the default branch unchecked.
C40_WitnessSelectMerged ==
    /\ command = "browse"
    /\ last.case = "a"
    /\ last.mode = "List"
    /\ Len(items) = 2
    /\ BranchShort(items[1].worktree) = DefaultBranchName
    /\ ~items[1].worktree.IsCurrent
    /\ ~items[1].checked
    /\ items[2].checked

\* The browser has removed the worktree on the default branch, checked by
\* hand, and a merged one, whose branch alone was to be deleted.
C40_WitnessRemoval ==
    /\ command = "browse"
    /\ mode = "Done"
    /\ Len(removeCalls) = 2
    /\ BranchShort(items[1].worktree) = DefaultBranchName
    /\ removeCalls[1].path = items[1].worktree.Path
    /\ ~removeCalls[1].deleteBranch
    /\ removeCalls[2].deleteBranch
====
